---- MODULE Spec2Model ----
(***************************************************************************)
(* Model of common/exechelp-posix.c (GnuPG): spawning children, the        *)
(* process handle, and the reaping of exit statuses.                       *)
(*                                                                         *)
(* The calling program is single threaded: one API call runs at a time.    *)
(* A call that blocks in the kernel (a blocking waitpid) is an action that *)
(* is enabled only once the kernel can let it return; the children run     *)
(* and terminate as actions of the environment in between.                 *)
(* Dynamic memory allocation (xtrymalloc, xtrycalloc) is taken to succeed. *)
(***************************************************************************)
EXTENDS Integers, Sequences, FiniteSets, TLC

\* ---------------------------------------------------------------- bounds
MaxPids == 3        \* process ids the kernel hands out: 1..MaxPids
MaxCount == 2       \* longest pid list given to a batch wait
MaxHandles == 2     \* process handles allocated over a run
MaxFd == 9          \* size of the descriptor table: descriptors 0..MaxFd-1
MaxOpen == 260      \* most descriptors open where they are listed

\* ------------------------------------------------------ program constants
NoPid == -1         \* (pid_t)(-1)
NoFd == -1          \* unowned descriptor slot
NoStatus == -1      \* wstatus / r_exitcodes entry without a status
SIGTERM == 15
ExitNotFound == 127 \* _exit (127) after a failed execv

Pids == 1..MaxPids
Hids == 1..MaxHandles
Fds == 0..(MaxFd - 1)

\* --------------------------------------------- raw wait status (sys/wait.h)
W_EXITCODE(code) == code * 256
WIFEXITED(status) == (status % 128) = 0
WEXITSTATUS(status) == (status \div 256) % 256
WIFSIGNALED(status) == (status % 128) \notin {0, 127}
\* WTERMSIG without the mask that drops the core flag.
WTERMSIG_raw(status) == status

WTERMSIG(status) == status % 128

\* Statuses the children terminate with where only the identity of a status
\* matters: a clean and a failed exit, a clean exit and death by SIGTERM.
ReapStatuses == {W_EXITCODE(0), W_EXITCODE(37)}
HandleStatuses == {W_EXITCODE(0), SIGTERM}

\* Every raw status waitpid can deliver for a terminated child: a normal exit
\* with code 0..255, or death by signal 1..126 without or with the core flag.
AllRawStatuses ==
  {W_EXITCODE(c) : c \in 0..255} \cup (1..126) \cup {128 + s : s \in 1..126}

Min(S) == CHOOSE x \in S : \A y \in S : x <= y

VARIABLES
  child,                \* Pids -> "unborn" | "running" | "zombie" | "reaped"
  wstat,                \* Pids -> raw status the child terminated with
  terminated_children,  \* the exit-record cache, newest record first
  proc,                 \* Hids -> struct gnupg_process (plus its allocation state)
  held,                 \* handles whose pointer the caller got back from spawn
  openfds,              \* descriptor table of the calling process: fd -> open file
  taken,                \* descriptors handed over to the caller by a take
  batch,                \* the frame of gnupg_wait_processes while it runs; of the
                        \* last call it keeps pre (every pid was waitable at entry)
                        \* and served (the pids answered from the cache)
  ret,                  \* what the last completed call returned
  got,                  \* pids whose status a batch wait delivered to its caller
  dup                   \* pids whose status was delivered more than once

vars == <<child, wstat, terminated_children, proc, held, openfds,
          taken, batch, ret, got, dup>>

osvars == <<child, wstat>>
handlevars == <<proc, held>>
fdvars == <<openfds, taken>>
ghostvars == <<got, dup>>

\* struct gnupg_process as calloc leaves it; mem tells whether it is allocated.
EmptyProc ==
  [mem |-> "unalloc", flags |-> {}, pid |-> 0, fd_in |-> 0, fd_out |-> 0,
   fd_err |-> 0, terminated |-> FALSE, wstatus |-> 0]

\* ----------------------------------------------------------- return values
Ret(op, ec, arg, req, hang, out) ==
  [op |-> op, ec |-> ec, arg |-> arg, req |-> req, hang |-> hang, out |-> out,
   calls |-> <<>>]

\* A return value with the system calls and the calls of pre_syscall and
\* post_syscall that the operation made, in their order.
Traced(r, calls) == [r EXCEPT !.calls = calls]

\* pre_syscall (); call; post_syscall ();
Clamp(call) == <<"pre_syscall", call, "post_syscall">>

NoRet == Ret("none", "GPG_ERR_NO_ERROR", 0, <<>>, FALSE, <<>>)

IdleBatch ==
  [pc |-> "idle", h |-> 0, pids |-> <<>>, hang |-> FALSE, dummy |-> FALSE,
   r_exitcodes |-> <<>>, left |-> 0, ec |-> "GPG_ERR_NO_ERROR", pre |-> FALSE,
   served |-> {}, calls |-> <<>>]

CallerRuns == batch.pc = "idle"

\* ------------------------------------------------------------------ kernel
Zombies == {p \in Pids : child[p] = "zombie"}
Running == {p \in Pids : child[p] = "running"}
Unborn == {p \in Pids : child[p] = "unborn"}

\* A child terminates on its own or because of a signal, with any status.
ChildExit(p, status) ==
  /\ child[p] = "running"
  /\ child' = [child EXCEPT ![p] = "zombie"]
  /\ wstat' = [wstat EXCEPT ![p] = status]
  /\ UNCHANGED <<terminated_children, handlevars, fdvars, batch, ret, ghostvars>>

\* kill (pid, sig) as the kernel answers it.
KillResult(pid) ==
  IF pid = NoPid THEN "GPG_ERR_NO_ERROR"            \* broadcast
  ELSE IF pid \in Pids /\ child[pid] \in {"running", "zombie"}
       THEN "GPG_ERR_NO_ERROR"
       ELSE "GPG_ERR_ESRCH"

\* --------------------------------------------------- legacy pid-level spawn
\* gnupg_spawn_process_fd reporting the error of fork although fork made a
\* child.
gnupg_spawn_process_fd_lost(fork_ok) ==
  /\ batch.pc = "idle"
  /\ IF Unborn # {}
     THEN /\ child' = [child EXCEPT ![Min(Unborn)] = "running"]
          /\ ret' = Ret("spawn_process_fd", "GPG_ERR_EAGAIN", NoPid, <<>>, FALSE, <<>>)
     ELSE /\ child' = child
          /\ ret' = Ret("spawn_process_fd", "GPG_ERR_EAGAIN", NoPid, <<>>, FALSE, <<>>)
  /\ UNCHANGED <<wstat, terminated_children, handlevars, fdvars, batch,
                 ghostvars>>

\* gnupg_spawn_process_fd: fork; the parent's descriptors stay as they are.
gnupg_spawn_process_fd(fork_ok) ==
  /\ CallerRuns
  /\ IF fork_ok /\ Unborn # {}
     THEN LET pid == Min(Unborn) IN
          /\ child' = [child EXCEPT ![pid] = "running"]
          /\ ret' = Ret("spawn_process_fd", "GPG_ERR_NO_ERROR", pid, <<>>, FALSE, <<>>)
     ELSE /\ child' = child
          /\ ret' = Ret("spawn_process_fd", "GPG_ERR_EAGAIN", NoPid, <<>>, FALSE, <<>>)
  /\ UNCHANGED <<wstat, terminated_children, handlevars, fdvars, batch,
                 ghostvars>>

\* gnupg_spawn_process_detached: the first child exits with 1 when setsid,
\* chdir or the second fork fails (fail = "child") and with 0 otherwise; the
\* parent waits for it without asking for the status, and returns 0 also
\* when waitpid fails.
gnupg_spawn_process_detached(fail) ==
  /\ CallerRuns
  /\ IF fail \in {"uid", "access", "fork"} \/ Unborn = {}
     THEN /\ UNCHANGED osvars
          /\ ret' = Ret("spawn_process_detached",
                        IF fail = "uid" THEN "GPG_ERR_BUG"
                        ELSE IF fail = "access" THEN "GPG_ERR_EACCES"
                        ELSE "GPG_ERR_EAGAIN", 0, <<>>, FALSE, <<>>)
     ELSE LET pid == Min(Unborn) IN
          /\ wstat' = [wstat EXCEPT ![pid] =
                         IF fail = "child" THEN W_EXITCODE(1) ELSE W_EXITCODE(0)]
          /\ child' = [child EXCEPT ![pid] =
                         IF fail = "waitpid" THEN "zombie" ELSE "reaped"]
          /\ ret' = Ret("spawn_process_detached", "GPG_ERR_NO_ERROR", 0, <<>>,
                        FALSE, <<>>)
  /\ UNCHANGED <<terminated_children, handlevars, fdvars, batch, ghostvars>>

\* gnupg_kill_process: SIGTERM to a valid pid, nothing for (pid_t)(-1).
\* out lists the pids kill was called with.
gnupg_kill_process(pid) ==
  /\ CallerRuns
  /\ ret' = Ret("kill_process", "GPG_ERR_NO_ERROR", pid, <<>>, FALSE,
                IF pid # NoPid THEN <<pid>> ELSE <<>>)
  /\ UNCHANGED <<child, wstat, terminated_children, handlevars, fdvars, batch,
                 ghostvars>>

\* ------------------------------------------------------- exit-record cache
store_result(list, pid, exitcode) ==
  <<[pid |-> pid, exitcode |-> exitcode]>> \o list

RECURSIVE FirstIndex(_, _, _)
\* Index of the first record of list for pid at or after i, 0 when none.
FirstIndex(list, pid, i) ==
  IF i > Len(list) THEN 0
  ELSE IF list[i].pid = pid THEN i
  ELSE FirstIndex(list, pid, i + 1)

RemoveAt(list, i) == SubSeq(list, 1, i - 1) \o SubSeq(list, i + 1, Len(list))

\* get_result with the record kept in the list (a lookup that forgets to unlink).
get_result_keep(list, pid) ==
  LET i == FirstIndex(list, pid, 1) IN
  IF i = 0 THEN [found |-> FALSE, exitcode |-> NoStatus, list |-> list]
  ELSE [found |-> TRUE, exitcode |-> list[i].exitcode, list |-> list]

\* get_result: unlink the first record for pid and hand out its status.
get_result(list, pid) ==
  LET i == FirstIndex(list, pid, 1) IN
  IF i = 0 THEN [found |-> FALSE, exitcode |-> NoStatus, list |-> list]
  ELSE [found |-> TRUE, exitcode |-> list[i].exitcode, list |-> RemoveAt(list, i)]

\* ------------------------------------------------- single-pid wait (legacy)
\* The classification of gnupg_wait_process for a status waitpid delivered:
\* the error code and what is written to *r_exitcode (-1 was written first).
ClassifyMiss127(status) ==
  IF WIFEXITED(status) /\ WEXITSTATUS(status) # 0
  THEN [ec |-> "GPG_ERR_GENERAL", exitcode |-> WEXITSTATUS(status)]
  ELSE IF ~WIFEXITED(status)
  THEN [ec |-> "GPG_ERR_GENERAL", exitcode |-> -1]
  ELSE [ec |-> "GPG_ERR_NO_ERROR", exitcode |-> 0]

Classify(status) ==
  IF WIFEXITED(status) /\ WEXITSTATUS(status) = ExitNotFound
  THEN [ec |-> "GPG_ERR_CONFIGURATION", exitcode |-> -1]
  ELSE IF WIFEXITED(status) /\ WEXITSTATUS(status) # 0
  THEN [ec |-> "GPG_ERR_GENERAL", exitcode |-> WEXITSTATUS(status)]
  ELSE IF ~WIFEXITED(status)
  THEN [ec |-> "GPG_ERR_GENERAL", exitcode |-> -1]
  ELSE [ec |-> "GPG_ERR_NO_ERROR", exitcode |-> 0]

Slot(has_slot, value) == IF has_slot THEN <<value>> ELSE <<>>

\* gnupg_wait_process (pgmname, pid, hang, r_exitcode)
gnupg_wait_process(pid, hang, has_slot) ==
  /\ CallerRuns
  /\ IF pid = NoPid
     THEN /\ ret' = Ret("wait_process", "GPG_ERR_INV_VALUE", pid, <<>>, hang,
                        Slot(has_slot, -1))
          /\ UNCHANGED child
     ELSE IF child[pid] = "zombie"
     THEN /\ child' = [child EXCEPT ![pid] = "reaped"]
          /\ ret' = Ret("wait_process", Classify(wstat[pid]).ec, pid, <<>>, hang,
                        Slot(has_slot, Classify(wstat[pid]).exitcode))
     ELSE IF child[pid] = "running"
     THEN /\ ~hang                      \* a blocking waitpid does not return yet
          /\ ret' = Ret("wait_process", "GPG_ERR_TIMEOUT", pid, <<>>, hang,
                        Slot(has_slot, -1))
          /\ UNCHANGED child
     ELSE /\ ret' = Ret("wait_process", "GPG_ERR_ECHILD", pid, <<>>, hang,
                        Slot(has_slot, -1))
          /\ UNCHANGED child
  /\ UNCHANGED <<wstat, terminated_children, handlevars, fdvars, batch,
                 ghostvars>>

\* --------------------------------------------------------------- batch wait
Range(seq) == {seq[i] : i \in 1..Len(seq)}
Distinct(seq) == \A i, j \in 1..Len(seq) : i # j => seq[i] # seq[j]

RECURSIVE Drain_invalid(_, _, _, _, _, _)
\* The first loop without left -= 1 for an invalid pid.
Drain_invalid(pids, i, list, codes, left, hits) ==
  IF i > Len(pids)
  THEN [list |-> list, r_exitcodes |-> codes, left |-> left, hits |-> hits]
  ELSE IF pids[i] = -1
  THEN Drain_invalid(pids, i + 1, list, Append(codes, -1), left, hits)
  ELSE LET r == get_result(list, pids[i]) IN
       Drain_invalid(pids, i + 1, r.list, Append(codes, r.exitcode),
                     IF r.found THEN left - 1 ELSE left,
                     IF r.found THEN Append(hits, pids[i]) ELSE hits)

RECURSIVE Drain(_, _, _, _, _, _)
\* The first loop of gnupg_wait_processes: invalid pids are skipped, a pid
\* with a stored result takes it out of the cache.  hits lists the pids served.
Drain(pids, i, list, codes, left, hits) ==
  IF i > Len(pids)
  THEN [list |-> list, r_exitcodes |-> codes, left |-> left, hits |-> hits]
  ELSE IF pids[i] = NoPid
  THEN Drain(pids, i + 1, list, Append(codes, -1), left - 1, hits)
  ELSE LET r == get_result(list, pids[i]) IN
       Drain(pids, i + 1, r.list, Append(codes, r.exitcode),
             IF r.found THEN left - 1 ELSE left,
             IF r.found THEN Append(hits, pids[i]) ELSE hits)

RECURSIVE ClassifyAll(_, _, _, _)
\* The last loop of gnupg_wait_processes over r_exitcodes.
ClassifyAll(codes, i, dummy, ec) ==
  IF i > Len(codes) THEN [r_exitcodes |-> codes, ec |-> ec]
  ELSE IF codes[i] = -1 THEN ClassifyAll(codes, i + 1, dummy, ec)
  ELSE IF WIFEXITED(codes[i]) /\ WEXITSTATUS(codes[i]) = ExitNotFound
  THEN ClassifyAll(codes, i + 1, dummy, "GPG_ERR_CONFIGURATION")
  ELSE IF WIFEXITED(codes[i]) /\ WEXITSTATUS(codes[i]) # 0
  THEN ClassifyAll(IF dummy THEN codes
                   ELSE [codes EXCEPT ![i] = WEXITSTATUS(codes[i])],
                   i + 1, dummy, "GPG_ERR_GENERAL")
  ELSE IF ~WIFEXITED(codes[i])
  THEN ClassifyAll(codes, i + 1, dummy, "GPG_ERR_GENERAL")
  ELSE ClassifyAll(codes, i + 1, dummy, ec)

\* The search with the comparison against pids[i] left out: every pid that
\* waitpid returns is taken for the first one listed.
MatchIndex_any(pids, pid, i) == IF i > Len(pids) THEN 0 ELSE i

RECURSIVE MatchIndex(_, _, _)
\* for (i = 0; i < count; i++) if (pid == pids[i]) break;   (0: no match)
MatchIndex(pids, pid, i) ==
  IF i > Len(pids) THEN 0
  ELSE IF pids[i] = pid THEN i
  ELSE MatchIndex(pids, pid, i + 1)

\* Leaving the wait loop: classify, return, drop the frame.
BatchReturn(frame) ==
  LET c == ClassifyAll(frame.r_exitcodes, 1, frame.dummy, frame.ec) IN
  /\ ret' = Ret("wait_processes", c.ec, Len(frame.pids), frame.pids, frame.hang,
                IF frame.dummy THEN <<>> ELSE c.r_exitcodes)
  /\ batch' = [IdleBatch EXCEPT !.pre = frame.pre, !.served = frame.served]

Delivered(hits) ==
  /\ got' = got \cup Range(hits)
  /\ dup' = dup \cup (got \cap Range(hits))
                \cup {hits[i] : i \in {k \in 1..Len(hits) :
                                         \E j \in 1..Len(hits) : j # k /\ hits[j] = hits[k]}}

\* Every listed pid is a child not yet reaped, or has a record in the cache.
Waitable(pids) ==
  /\ Distinct(pids)
  /\ \A i \in 1..Len(pids) :
       /\ pids[i] \in Pids
       /\ \/ child[pids[i]] \in {"running", "zombie"}
          \/ FirstIndex(terminated_children, pids[i], 1) # 0

\* gnupg_wait_processes up to its first waitpid.
gnupg_wait_processes_enter(pids, hang, has_codes) ==
  /\ CallerRuns
  /\ LET d == Drain(pids, 1, terminated_children, <<>>, Len(pids), <<>>)
         frame == [pc |-> "waitpid", h |-> 0, pids |-> pids, hang |-> hang,
                   dummy |-> ~has_codes, r_exitcodes |-> d.r_exitcodes,
                   left |-> d.left, ec |-> "GPG_ERR_NO_ERROR",
                   pre |-> Waitable(pids), served |-> Range(d.hits), calls |-> <<>>]
     IN /\ terminated_children' = d.list
        /\ Delivered(d.hits)
        /\ IF d.left > 0
           THEN batch' = frame /\ ret' = ret
           ELSE BatchReturn(frame)
  /\ UNCHANGED <<osvars, handlevars, fdvars>>

\* One turn of the loop around waitpid (-1, &status, hang ? 0 : WNOHANG).
gnupg_wait_processes_waitpid ==
  /\ batch.pc = "waitpid"
  /\ \/ \E pid \in Zombies :
          LET status == wstat[pid]
              i == MatchIndex(batch.pids, pid, 1)
          IN /\ child' = [child EXCEPT ![pid] = "reaped"]
             /\ IF i = 0
                THEN \* No match, store this result.
                     /\ terminated_children' =
                          store_result(terminated_children, pid, status)
                     /\ UNCHANGED <<batch, ret, ghostvars>>
                ELSE IF batch.r_exitcodes[i] # -1
                THEN \* PID was reused
                     /\ BatchReturn([batch EXCEPT !.ec = "GPG_ERR_GENERAL"])
                     /\ UNCHANGED <<terminated_children, ghostvars>>
                ELSE LET frame == [batch EXCEPT !.left = @ - 1,
                                                !.r_exitcodes[i] = status]
                     IN /\ Delivered(<<pid>>)
                        /\ IF frame.left > 0
                           THEN batch' = frame /\ ret' = ret
                           ELSE BatchReturn(frame)
                        /\ UNCHANGED terminated_children
     \/ /\ Zombies = {} /\ Running = {}
        /\ BatchReturn([batch EXCEPT !.ec = "GPG_ERR_ECHILD"])
        /\ UNCHANGED <<child, terminated_children, ghostvars>>
     \/ /\ Zombies = {} /\ Running # {} /\ ~batch.hang
        /\ BatchReturn([batch EXCEPT !.ec = "GPG_ERR_TIMEOUT"])
        /\ UNCHANGED <<child, terminated_children, ghostvars>>
  /\ UNCHANGED <<wstat, handlevars, fdvars>>

\* -------------------------------------------------------- descriptor table
\* An open file: which call created it (h: the handle of the spawn, 0 for what
\* the program started with), what it is, and which end of a pair.
File(h, what, end) == [h |-> h, what |-> what, end |-> end]

\* The program starts with its three standard streams open.
StdTable == [fd \in {0, 1, 2} |-> File(0, "std", fd)]

FreeFds(tab) == Fds \ DOMAIN tab

Close(tab, fd) == [f \in (DOMAIN tab) \ {fd} |-> tab[f]]
CloseIf(tab, cond, fd) == IF cond THEN Close(tab, fd) ELSE tab
Install(tab, fd, file) == [f \in (DOMAIN tab) \cup {fd} |-> IF f = fd THEN file ELSE tab[f]]

\* pipe (filedes) / socketpair (..., filedes): the two lowest free descriptors;
\* fails when the kernel refuses (ok = FALSE) or the table is full.
TwoFds(tab, ok, h, what) ==
  IF ok /\ Cardinality(FreeFds(tab)) >= 2
  THEN LET a == Min(FreeFds(tab))
           b == Min(FreeFds(tab) \ {a})
       IN [err |-> FALSE, fds |-> <<a, b>>,
           tab |-> Install(Install(tab, a, File(h, what, 0)), b, File(h, what, 1))]
  ELSE [err |-> TRUE, fds |-> <<-1, -1>>, tab |-> tab]

\* do_create_pipe: filedes[0] is the read end, filedes[1] the write end.
do_create_pipe(tab, ok, h, what) == TwoFds(tab, ok, h, what)

\* do_create_socketpair
do_create_socketpair(tab, ok, h) == TwoFds(tab, ok, h, "sock")

\* dup (fd): the lowest free descriptor for the same open file, -1 on failure.
Dup(tab, fd) ==
  IF fd \in DOMAIN tab /\ FreeFds(tab) # {}
  THEN LET n == Min(FreeFds(tab)) IN [fd |-> n, tab |-> Install(tab, n, tab[fd])]
  ELSE [fd |-> -1, tab |-> tab]

\* ------------------------------------------------------- handle-level spawn
\* GNUPG_PROCESS_* flags are a set of flag names.
STDFDS_SETTING ==
  {"STDIN_PIPE", "STDOUT_PIPE", "STDERR_PIPE", "STDINOUT_SOCKETPAIR",
   "STDIN_NULL", "STDOUT_NULL", "STDERR_NULL"}

E0(filedes) == filedes[1]      \* filedes[0]
E1(filedes) == filedes[2]      \* filedes[1]

\* if (fd_in[0] >= 0 && fd_in[0] != 0) close (fd_in[0]);
\* if (fd_in[1] >= 0) close (fd_in[1]);
\* The rollback of the stdin pair without the close of the parent's end.
RollbackIn_leak(tab, fd_in) ==
  CloseIf(tab, E0(fd_in) >= 0 /\ E0(fd_in) # 0, E0(fd_in))

RollbackIn(tab, fd_in) ==
  CloseIf(CloseIf(tab, E0(fd_in) >= 0 /\ E0(fd_in) # 0, E0(fd_in)),
          E1(fd_in) >= 0, E1(fd_in))

\* if (fd_out[0] >= 0) close (fd_out[0]);
\* if (fd_out[1] >= 0 && fd_out[1] != 1) close (fd_out[1]);
RollbackOut(tab, fd_out) ==
  CloseIf(CloseIf(tab, E0(fd_out) >= 0, E0(fd_out)),
          E1(fd_out) >= 0 /\ E1(fd_out) # 1, E1(fd_out))

\* if (fd_err[0] >= 0) close (fd_err[0]);
\* if (fd_err[1] >= 0 && fd_err[1] != 2) close (fd_err[1]);
RollbackErr(tab, fd_err) ==
  CloseIf(CloseIf(tab, E0(fd_err) >= 0, E0(fd_err)),
          E1(fd_err) >= 0 /\ E1(fd_err) # 2, E1(fd_err))

Plumbed(ec, tab, fd_in, fd_out, fd_err) ==
  [ec |-> ec, tab |-> tab, fd_in |-> fd_in, fd_out |-> fd_out, fd_err |-> fd_err]

None2 == <<-1, -1>>

\* The standard error part of gnupg_process_spawn, after stdin and stdout.
PlumbErr(tab, h, flags, fail, fd_in, fd_out) ==
  IF "STDERR_PIPE" \in flags
  THEN LET p == do_create_pipe(tab, fail # "stderr_pipe", h, "err") IN
       IF p.err
       THEN Plumbed("GPG_ERR_EMFILE", RollbackOut(RollbackIn(p.tab, fd_in), fd_out),
                    fd_in, fd_out, p.fds)
       ELSE Plumbed("GPG_ERR_NO_ERROR", p.tab, fd_in, fd_out, p.fds)
  ELSE IF "STDERR_NULL" \in flags
  THEN Plumbed("GPG_ERR_NO_ERROR", tab, fd_in, fd_out, None2)
  ELSE Plumbed("GPG_ERR_NO_ERROR", tab, fd_in, fd_out, <<-1, 2>>)

\* The standard output part, after stdin (no socket pair).
PlumbOut(tab, h, flags, fail, fd_in) ==
  IF "STDOUT_PIPE" \in flags
  THEN LET p == do_create_pipe(tab, fail # "stdout_pipe", h, "out") IN
       IF p.err
       THEN Plumbed("GPG_ERR_EMFILE", RollbackIn(p.tab, fd_in), fd_in, p.fds, None2)
       ELSE PlumbErr(p.tab, h, flags, fail, fd_in, p.fds)
  ELSE IF "STDOUT_NULL" \in flags
  THEN PlumbErr(tab, h, flags, fail, fd_in, None2)
  ELSE PlumbErr(tab, h, flags, fail, fd_in, <<-1, 1>>)

\* The descriptors gnupg_process_spawn sets up before it forks.
Plumb(tab, h, flags, fail) ==
  IF "STDINOUT_SOCKETPAIR" \in flags
  THEN LET sp == do_create_socketpair(tab, fail # "socketpair", h) IN
       IF sp.err
       THEN Plumbed("GPG_ERR_EMFILE", sp.tab, sp.fds, None2, None2)
       ELSE LET d0 == Dup(sp.tab, E0(sp.fds))
                d1 == Dup(d0.tab, E1(sp.fds))
            IN PlumbErr(d1.tab, h, flags, fail, sp.fds, <<d0.fd, d1.fd>>)
  ELSE IF "STDIN_PIPE" \in flags
  THEN LET p == do_create_pipe(tab, fail # "stdin_pipe", h, "in") IN
       IF p.err
       THEN Plumbed("GPG_ERR_EMFILE", p.tab, p.fds, None2, None2)
       ELSE PlumbOut(p.tab, h, flags, fail, p.fds)
  ELSE IF "STDIN_NULL" \in flags
  THEN PlumbOut(tab, h, flags, fail, None2)
  ELSE PlumbOut(tab, h, flags, fail, <<0, -1>>)

\* The system calls and hook calls of that part: do_create_socketpair calls
\* the hooks, do_create_pipe does not.  A step is reached when none before it
\* failed; a failed step leaves <<-1, -1>> in its pair.
PlumbCalls(flags, pl) ==
  LET sock == "STDINOUT_SOCKETPAIR" \in flags
      in_made == sock \/ "STDIN_PIPE" \in flags
      in_ok == ~in_made \/ pl.fd_in # None2
      out_made == ~sock /\ in_ok /\ "STDOUT_PIPE" \in flags
      out_ok == in_ok /\ (~out_made \/ pl.fd_out # None2)
      err_made == out_ok /\ "STDERR_PIPE" \in flags
  IN (IF sock THEN Clamp("socketpair") ELSE IF in_made THEN <<"pipe">> ELSE <<>>)
       \o (IF out_made THEN <<"pipe">> ELSE <<>>)
       \o (IF err_made THEN <<"pipe">> ELSE <<>>)

\* The closes after fork without the one of fd_err[1].
ParentClose_keep(tab, fd_in, fd_out, fd_err) ==
  CloseIf(CloseIf(tab, E0(fd_in) >= 0 /\ E0(fd_in) # 0, E0(fd_in)),
          E1(fd_out) >= 0 /\ E1(fd_out) # 1, E1(fd_out))

\* The parent after a successful fork closes the child's ends.
ParentClose(tab, fd_in, fd_out, fd_err) ==
  CloseIf(CloseIf(CloseIf(tab, E0(fd_in) >= 0 /\ E0(fd_in) # 0, E0(fd_in)),
                  E1(fd_out) >= 0 /\ E1(fd_out) # 1, E1(fd_out)),
          E1(fd_err) >= 0 /\ E1(fd_err) # 2, E1(fd_err))

\* xtrycalloc (1, sizeof (struct gnupg_process)) with pgmname and flags set.
NewProc(flags) == [EmptyProc EXCEPT !.mem = "live", !.flags = flags]

Unalloc == {h \in Hids : proc[h].mem = "unalloc"}

\* ------------------------------------------------- waiting on one handle
\* gnupg_process_wait on the structure pr: the error code, the structure
\* afterwards, the pid reaped (0: none), and whether waitpid has to block.
Waited(ec, pr, reaped, blocks) ==
  [ec |-> ec, pr |-> pr, reaped |-> reaped, blocks |-> blocks]

\* gnupg_process_wait without the branch for a child that is still running:
\* the handle is marked terminated with whatever status holds.
process_wait_eager(pr, hang) ==
  IF pr.terminated THEN Waited("GPG_ERR_NO_ERROR", pr, 0, FALSE)
  ELSE IF pr.pid \in Pids /\ child[pr.pid] = "zombie"
  THEN Waited("GPG_ERR_NO_ERROR",
              [pr EXCEPT !.terminated = TRUE, !.wstatus = wstat[pr.pid]],
              pr.pid, FALSE)
  ELSE IF pr.pid \in Pids /\ child[pr.pid] = "running"
  THEN Waited("GPG_ERR_NO_ERROR", [pr EXCEPT !.terminated = TRUE, !.wstatus = 0],
              0, hang)
  ELSE Waited("GPG_ERR_ECHILD", pr, 0, FALSE)

\* gnupg_process_wait with process->wstatus = status done before the result
\* of waitpid is looked at.
process_wait_stores(pr, hang) ==
  IF pr.terminated THEN Waited("GPG_ERR_NO_ERROR", pr, 0, FALSE)
  ELSE IF pr.pid \in Pids /\ child[pr.pid] = "zombie"
  THEN Waited("GPG_ERR_NO_ERROR",
              [pr EXCEPT !.terminated = TRUE, !.wstatus = wstat[pr.pid]],
              pr.pid, FALSE)
  ELSE IF pr.pid \in Pids /\ child[pr.pid] = "running"
  THEN Waited("GPG_ERR_TIMEOUT", [pr EXCEPT !.wstatus = 0], 0, hang)
  ELSE Waited("GPG_ERR_ECHILD", [pr EXCEPT !.wstatus = 0], 0, FALSE)

process_wait(pr, hang) ==
  IF pr.terminated THEN Waited("GPG_ERR_NO_ERROR", pr, 0, FALSE)
  ELSE IF pr.pid \in Pids /\ child[pr.pid] = "zombie"
  THEN Waited("GPG_ERR_NO_ERROR",
              [pr EXCEPT !.terminated = TRUE, !.wstatus = wstat[pr.pid]],
              pr.pid, FALSE)
  ELSE IF pr.pid \in Pids /\ child[pr.pid] = "running"
  THEN Waited("GPG_ERR_TIMEOUT", pr, 0, hang)
  ELSE Waited("GPG_ERR_ECHILD", pr, 0, FALSE)

\* A waitpid that leaves the child it returned in the process table.
Reap_none(reaped) == child' = child

Reap(reaped) ==
  child' = [p \in Pids |-> IF p = reaped THEN "reaped" ELSE child[p]]

\* gnupg_process_release on pr: the signal it sends (the pid given to kill,
\* 0 when it sends none) and the wait it makes.
Released(killed, w) == [killed |-> killed, w |-> w]

process_release(pr) ==
  IF pr.terminated
  THEN Released(pr.pid, process_wait(pr, TRUE))
  ELSE Released(0, Waited("GPG_ERR_NO_ERROR", pr, 0, FALSE))

\* The pids kill was called with, as a list.
Signals(killed) == IF killed = 0 THEN <<>> ELSE <<killed>>

\* The calls of gnupg_process_wait and of gnupg_process_release on pr; the
\* wait of a release finds the handle terminated and returns at once.
WaitCalls(pr) == IF pr.terminated THEN <<>> ELSE Clamp("waitpid")
ReleaseCalls(pr) == IF pr.terminated THEN Clamp("kill") ELSE <<>>

\* ------------------------------------------------------ gnupg_process_spawn
\* What is known of a spawn call when it returns: the descriptors that were
\* open when it was made, and how many it had created itself by then.
SpawnCall(made) == [before |-> openfds, made |-> made]

\* The descriptors among the pairs that the call created: not -1, and not one
\* of the inherited 0, 1, 2 that stand in fd_in[0], fd_out[1], fd_err[1].
Made(fd_in, fd_out, fd_err) ==
  Cardinality(({E0(fd_in)} \ {0}) \cup {E1(fd_in)} \cup {E0(fd_out)}
              \cup ({E1(fd_out)} \ {1}) \cup {E0(fd_err)} \cup ({E1(fd_err)} \ {2}))
  - (IF -1 \in {E0(fd_in), E1(fd_in), E0(fd_out), E1(fd_out), E0(fd_err), E1(fd_err)}
     THEN 1 ELSE 0)

\* An error return of gnupg_process_spawn: the handle is freed, the caller's
\* slot holds slot (0: NULL), the descriptor table is left as tab.
SpawnFails(h, made, ec, tab, slot, calls) ==
  /\ proc' = [proc EXCEPT ![h] = [EmptyProc EXCEPT !.mem = "freed"]]
  /\ openfds' = tab
  /\ ret' = Traced(Ret("process_spawn", ec, slot, SpawnCall(made), FALSE, <<>>), calls)
  /\ UNCHANGED <<osvars, terminated_children, held, taken, batch, ghostvars>>

\* *r_process = process with r_process == NULL, when the store faults.
SpawnCrashes(h, flags) ==
  /\ proc' = [proc EXCEPT ![h] = NewProc(flags)]
  /\ batch' = [IdleBatch EXCEPT !.pc = "crashed", !.pre = batch.pre]
  /\ ret' = Ret("crashed", "SIGSEGV", 0, SpawnCall(0), FALSE, <<>>)
  /\ UNCHANGED <<osvars, terminated_children, held, fdvars, ghostvars>>

\* spawn_detached, called with *r_process already set to process.
spawn_detached(h, flags, has_slot, fail) ==
  LET slot == IF has_slot THEN h ELSE 0 IN
  IF fail = "uid" THEN SpawnFails(h, 0, "GPG_ERR_BUG", openfds, slot, <<>>)
  ELSE IF fail = "access"
  THEN SpawnFails(h, 0, "GPG_ERR_EACCES", openfds, slot, <<>>)
  ELSE IF fail = "fork" \/ Unborn = {}
  THEN SpawnFails(h, 0, "GPG_ERR_EAGAIN", openfds, slot, Clamp("fork"))
  ELSE LET pid == Min(Unborn)
           \* the first child: _exit (1) when setsid, chdir or the second
           \* fork fails, _exit (0) otherwise
           status == IF fail = "child" THEN W_EXITCODE(1) ELSE W_EXITCODE(0)
       IN /\ wstat' = [wstat EXCEPT ![pid] = status]
          /\ IF fail = "waitpid"
             THEN /\ child' = [child EXCEPT ![pid] = "zombie"]
                  /\ proc' = [proc EXCEPT ![h] = NewProc(flags)]
                  /\ held' = held
                  /\ ret' = Traced(Ret("process_spawn", "GPG_ERR_EINTR", slot,
                                       SpawnCall(0), FALSE, <<>>),
                                   Clamp("fork") \o Clamp("waitpid"))
             ELSE /\ child' = [child EXCEPT ![pid] = "reaped"]
                  /\ proc' = [proc EXCEPT ![h] =
                                [NewProc(flags) EXCEPT !.pid = -1, !.fd_in = -1,
                                   !.fd_out = -1, !.fd_err = -1, !.wstatus = -1,
                                   !.terminated = TRUE]]
                  /\ held' = IF has_slot THEN held \cup {h} ELSE held
                  /\ ret' = Traced(Ret("process_spawn", "GPG_ERR_NO_ERROR", slot,
                                       SpawnCall(0), FALSE, <<>>),
                                   Clamp("fork") \o Clamp("waitpid"))
          /\ UNCHANGED <<terminated_children, fdvars, batch, ghostvars>>

\* The parent's part of gnupg_process_spawn after fork returned pid.
SpawnParent(h, flags, has_slot, pl, pid) ==
  /\ child' = [child EXCEPT ![pid] = "running"]
  /\ proc' = [proc EXCEPT ![h] =
                [NewProc(flags) EXCEPT !.pid = pid, !.fd_in = E1(pl.fd_in),
                   !.fd_out = E0(pl.fd_out), !.fd_err = E0(pl.fd_err),
                   !.wstatus = -1, !.terminated = FALSE]]
  /\ openfds' = ParentClose(pl.tab, pl.fd_in, pl.fd_out, pl.fd_err)
  /\ IF has_slot
     THEN /\ held' = held \cup {h}
          /\ ret' = Traced(Ret("process_spawn", "GPG_ERR_NO_ERROR", h,
                               SpawnCall(0), FALSE, <<>>),
                           PlumbCalls(flags, pl) \o Clamp("fork"))
          /\ batch' = batch
     ELSE \* r_process == NULL: gnupg_process_wait (process, 1) has called
          \* pre_syscall and is in waitpid
          /\ held' = held
          /\ ret' = ret
          /\ batch' = [IdleBatch EXCEPT !.pc = "spawn_wait", !.h = h,
                                        !.pre = batch.pre,
                                        !.calls = PlumbCalls(flags, pl) \o Clamp("fork")
                                                    \o <<"pre_syscall", "waitpid">>]
  /\ UNCHANGED <<wstat, terminated_children, taken, ghostvars>>

\* gnupg_process_spawn (pgmname, argv, flags, spawn_cb, spawn_cb_arg, r_process)
\* fail names the step that fails ("none": no step does); ub tells what the
\* store through a NULL r_process does in this build.
gnupg_process_spawn(flags, has_slot, fail, ub) ==
  /\ CallerRuns
  /\ Unalloc # {}
  /\ LET h == Min(Unalloc) IN
     IF "DETACHED" \in flags
     THEN IF flags \cap STDFDS_SETTING # {}
          THEN SpawnFails(h, 0, "GPG_ERR_INV_FLAG", openfds, 0, <<>>)
          ELSE IF ~has_slot /\ ub = "fault"
          THEN SpawnCrashes(h, flags)
          ELSE spawn_detached(h, flags, has_slot, fail)
     ELSE LET pl == Plumb(openfds, h, flags, fail) IN
          IF pl.ec # "GPG_ERR_NO_ERROR"
          THEN SpawnFails(h, Made(pl.fd_in, pl.fd_out, pl.fd_err), pl.ec, pl.tab, 0,
                          PlumbCalls(flags, pl))
          ELSE IF fail = "fork" \/ Unborn = {}
          THEN SpawnFails(h, Made(pl.fd_in, pl.fd_out, pl.fd_err), "GPG_ERR_EAGAIN",
                          RollbackErr(RollbackOut(RollbackIn(pl.tab, pl.fd_in),
                                                  pl.fd_out), pl.fd_err), 0,
                          PlumbCalls(flags, pl) \o Clamp("fork"))
          ELSE SpawnParent(h, flags, has_slot, pl, Min(Unborn))

\* The rest of a gnupg_process_spawn without r_process: the blocking wait
\* returns, the handle is released, the status of the wait is returned.
gnupg_process_spawn_reap ==
  /\ batch.pc = "spawn_wait"
  /\ LET h == batch.h
         w == process_wait(proc[h], TRUE)
         rel == process_release(w.pr)
     IN /\ ~w.blocks
        /\ Reap(w.reaped)
        /\ proc' = [proc EXCEPT ![h] = [rel.w.pr EXCEPT !.mem = "freed"]]
        /\ ret' = Traced(Ret("process_spawn", w.ec, 0, <<>>, TRUE, Signals(rel.killed)),
                         batch.calls \o <<"post_syscall">> \o ReleaseCalls(w.pr))
        /\ batch' = [IdleBatch EXCEPT !.pre = batch.pre]
  /\ UNCHANGED <<wstat, terminated_children, held, fdvars, ghostvars>>

\* --------------------------------------------------- operations on a handle
Usable(h) == h \in held /\ proc[h].mem = "live"

\* process_kill (process, sig): the error code of kill (process->pid, sig).
process_kill(pr) == KillResult(pr.pid)

\* gnupg_process_terminate; out lists the pids kill was called with.
gnupg_process_terminate(h) ==
  /\ CallerRuns /\ Usable(h)
  /\ ret' = Traced(Ret("process_terminate", process_kill(proc[h]), h, <<>>, FALSE,
                       <<proc[h].pid>>), Clamp("kill"))
  /\ UNCHANGED <<osvars, terminated_children, handlevars, fdvars, batch, ghostvars>>

Streams == {"in", "out", "err"}
SlotOf(pr, s) == IF s = "in" THEN pr.fd_in ELSE IF s = "out" THEN pr.fd_out ELSE pr.fd_err

\* The slots named in wants set to -1.
ClearSlots(pr, wants) ==
  [pr EXCEPT !.fd_in = IF "in" \in wants THEN -1 ELSE @,
             !.fd_out = IF "out" \in wants THEN -1 ELSE @,
             !.fd_err = IF "err" \in wants THEN -1 ELSE @]

\* gnupg_process_get_fds with a slot kept owned after it was handed out.
get_fds_keep(pr, wants) == pr

\* The handle after gnupg_process_get_fds for the slots in wants.
get_fds(pr, wants) == ClearSlots(pr, wants)

\* gnupg_process_get_fds: wants are the streams with a non-NULL r_fd_*.
gnupg_process_get_fds(h, wants) ==
  /\ CallerRuns /\ Usable(h)
  /\ proc' = [proc EXCEPT ![h] = get_fds(proc[h], wants)]
  /\ taken' = taken \cup {SlotOf(proc[h], s) : s \in {t \in wants : SlotOf(proc[h], t) >= 0}}
  /\ ret' = Ret("process_get_fds", "GPG_ERR_NO_ERROR", h, wants, FALSE,
                [s \in wants |-> SlotOf(proc[h], s)])
  /\ UNCHANGED <<osvars, terminated_children, held, openfds, batch, ghostvars>>

\* es_fdopen (fd, mode): a stream that owns fd, NULL (-1) for a bad descriptor.
es_fdopen(fd) == IF fd \in DOMAIN openfds THEN fd ELSE -1

\* gnupg_process_get_streams
gnupg_process_get_streams(h, wants) ==
  /\ CallerRuns /\ Usable(h)
  /\ proc' = [proc EXCEPT ![h] = ClearSlots(proc[h], wants)]
  /\ taken' = taken \cup {SlotOf(proc[h], s) : s \in {t \in wants : SlotOf(proc[h], t) >= 0}}
  /\ ret' = Ret("process_get_streams", "GPG_ERR_NO_ERROR", h, wants, FALSE,
                [s \in wants |-> es_fdopen(SlotOf(proc[h], s))])
  /\ UNCHANGED <<osvars, terminated_children, held, openfds, batch, ghostvars>>

\* process_vctl: the error code and the values written through the pointers.
process_vctl(pr, request) ==
  IF request = "NOP" THEN [ec |-> "GPG_ERR_NO_ERROR", out |-> <<>>]
  ELSE IF request \in {"GET_ID", "GET_PID"}
  THEN [ec |-> "GPG_ERR_NO_ERROR", out |-> <<pr.pid>>]
  ELSE IF request = "GET_EXIT_ID"
  THEN IF ~pr.terminated THEN [ec |-> "GPG_ERR_UNFINISHED", out |-> <<>>]
       ELSE IF WIFEXITED(pr.wstatus)
       THEN [ec |-> "GPG_ERR_NO_ERROR", out |-> <<WEXITSTATUS(pr.wstatus)>>]
       ELSE [ec |-> "GPG_ERR_NO_ERROR", out |-> <<-1>>]
  ELSE IF request = "GET_WSTATUS"
  THEN IF ~pr.terminated THEN [ec |-> "GPG_ERR_UNFINISHED", out |-> <<>>]
       ELSE IF WIFEXITED(pr.wstatus)
       THEN [ec |-> "GPG_ERR_NO_ERROR", out |-> <<1, 0, WEXITSTATUS(pr.wstatus), 0>>]
       ELSE IF WIFSIGNALED(pr.wstatus)
       THEN [ec |-> "GPG_ERR_NO_ERROR", out |-> <<0, 1, 0, WTERMSIG(pr.wstatus)>>]
       ELSE [ec |-> "GPG_ERR_NO_ERROR", out |-> <<>>]
  ELSE IF request = "KILL"
  THEN [ec |-> process_kill(pr), out |-> <<>>]
  ELSE [ec |-> "GPG_ERR_UNKNOWN_COMMAND", out |-> <<>>]

CtlRequests == {"NOP", "GET_ID", "GET_EXIT_ID", "GET_PID", "GET_WSTATUS", "KILL", "OTHER"}

\* gnupg_process_ctl (process, request, ...)
gnupg_process_ctl(h, request) ==
  /\ CallerRuns /\ Usable(h)
  /\ UNCHANGED <<osvars, terminated_children, handlevars, fdvars, batch, ghostvars>>
  /\ ret' = Traced(Ret("process_ctl", process_vctl(proc[h], request).ec, h, request,
                       FALSE, process_vctl(proc[h], request).out),
                   IF request = "KILL" THEN Clamp("kill") ELSE <<>>)

\* gnupg_process_wait (process, hang)
gnupg_process_wait(h, hang) ==
  /\ CallerRuns /\ Usable(h)
  /\ LET w == process_wait(proc[h], hang) IN
     /\ ~w.blocks
     /\ Reap(w.reaped)
     /\ proc' = [proc EXCEPT ![h] = w.pr]
     /\ ret' = Traced(Ret("process_wait", w.ec, h, <<>>, hang, <<>>), WaitCalls(proc[h]))
  /\ UNCHANGED <<wstat, terminated_children, held, fdvars, batch, ghostvars>>

\* gnupg_process_release (process), process not NULL
gnupg_process_release(h) ==
  /\ CallerRuns /\ Usable(h)
  /\ LET rel == process_release(proc[h]) IN
     /\ ~rel.w.blocks
     /\ Reap(rel.w.reaped)
     /\ proc' = [proc EXCEPT ![h] = [rel.w.pr EXCEPT !.mem = "freed"]]
     /\ ret' = Traced(Ret("process_release", "GPG_ERR_NO_ERROR", h, <<>>, FALSE,
                          Signals(rel.killed)), ReleaseCalls(proc[h]))
  /\ held' = held \ {h}
  /\ UNCHANGED <<wstat, terminated_children, fdvars, batch, ghostvars>>

RECURSIVE WaitList(_, _, _, _, _, _)
\* The loop of gnupg_process_wait_list from index i on: the handles as they
\* are left, the pids reaped, the error code, whether a waitpid has to block.
WaitList(list, i, procs, reaped, hang, calls) ==
  IF i > Len(list)
  THEN [ec |-> "GPG_ERR_NO_ERROR", procs |-> procs, reaped |-> reaped, blocks |-> FALSE,
        calls |-> calls]
  ELSE IF procs[list[i]].terminated
  THEN WaitList(list, i + 1, procs, reaped, hang, calls)
  ELSE LET w == process_wait(procs[list[i]], hang) IN
       IF w.blocks \/ w.ec # "GPG_ERR_NO_ERROR"
       THEN [ec |-> w.ec, procs |-> procs, reaped |-> reaped, blocks |-> w.blocks,
             calls |-> calls \o Clamp("waitpid")]
       ELSE WaitList(list, i + 1, [procs EXCEPT ![list[i]] = w.pr],
                     reaped \cup {w.reaped}, hang, calls \o Clamp("waitpid"))

\* gnupg_process_wait_list (process_list, count, hang)
gnupg_process_wait_list(list, hang) ==
  /\ CallerRuns
  /\ \A i \in 1..Len(list) : Usable(list[i])
  /\ LET r == WaitList(list, 1, proc, {}, hang, <<>>) IN
     /\ ~r.blocks
     /\ child' = [p \in Pids |-> IF p \in r.reaped THEN "reaped" ELSE child[p]]
     /\ proc' = r.procs
     /\ ret' = Traced(Ret("process_wait_list", r.ec, 0, list, hang, <<>>), r.calls)
  /\ UNCHANGED <<wstat, terminated_children, held, fdvars, batch, ghostvars>>

\* ------------------------------------------------------ gnupg_spawn_process
\* close (p[1]) (through es_fclose for the stream's end) and close (p[0]),
\* each when it is not -1.
CloseBoth(tab, p) ==
  CloseIf(CloseIf(tab, E1(p) # -1, E1(p)), E0(p) # -1, E0(p))

\* create_pipe_and_estream when do_it, nothing otherwise.  Either the pipe or
\* the stream for its parent end can fail; then no descriptor is left.
create_pipe_and_estream(tab, do_it, pipe_ok, stream_ok, what) ==
  IF ~do_it THEN [err |-> FALSE, fds |-> None2, tab |-> tab]
  ELSE LET p == TwoFds(tab, pipe_ok, 0, what) IN
       IF p.err THEN p
       ELSE IF ~stream_ok THEN [err |-> TRUE, fds |-> None2, tab |-> tab]
       ELSE p

\* gnupg_spawn_process: wants are the streams with a non-NULL r_*fp.
gnupg_spawn_process(wants, fail) ==
  /\ CallerRuns
  /\ LET a == create_pipe_and_estream(openfds, "in" \in wants,
                                      fail # "stdin_pipe", fail # "stdin_stream", "in")
         b == create_pipe_and_estream(a.tab, "out" \in wants,
                                      fail # "stdout_pipe", fail # "stdout_stream", "out")
         c == create_pipe_and_estream(b.tab, "err" \in wants,
                                      fail # "stderr_pipe", fail # "stderr_stream", "err")
         Failed(ec, tab) ==
           /\ openfds' = tab
           /\ ret' = Ret("spawn_process", ec, NoPid,
                         SpawnCall(Made(a.fds, b.fds, c.fds)), FALSE, <<>>)
           /\ UNCHANGED <<child, taken>>
     IN IF a.err THEN Failed("GPG_ERR_EMFILE", a.tab)
        ELSE IF b.err THEN Failed("GPG_ERR_EMFILE", CloseBoth(b.tab, a.fds))
        ELSE IF c.err
        THEN Failed("GPG_ERR_EMFILE", CloseBoth(CloseBoth(c.tab, a.fds), b.fds))
        ELSE IF fail = "fork" \/ Unborn = {}
        THEN Failed("GPG_ERR_EAGAIN",
                    CloseBoth(CloseBoth(CloseBoth(c.tab, a.fds), b.fds), c.fds))
        ELSE LET pid == Min(Unborn) IN
             /\ child' = [child EXCEPT ![pid] = "running"]
             /\ openfds' = CloseIf(CloseIf(CloseIf(c.tab, E0(a.fds) # -1, E0(a.fds)),
                                           E1(b.fds) # -1, E1(b.fds)),
                                   E1(c.fds) # -1, E1(c.fds))
             /\ taken' = taken \cup ({E1(a.fds), E0(b.fds), E0(c.fds)} \ {-1})
             /\ ret' = Ret("spawn_process", "GPG_ERR_NO_ERROR", pid,
                           SpawnCall(0), FALSE,
                           <<E1(a.fds), E0(b.fds), E0(c.fds)>>)
  /\ UNCHANGED <<wstat, terminated_children, handlevars, batch, ghostvars>>

\* ------------------------------------------- descriptors of a whole process
Max(S) == CHOOSE x \in S : \A y \in S : x >= y

\* get_max_fds: one more than the highest name in /proc/self/fd, which lists
\* the descriptor of the directory stream too; the limit of the process when
\* the directory cannot be opened.
get_max_fds(tab, limit, how) ==
  LET free == (0..(limit - 1)) \ DOMAIN tab IN
  IF how = "proc" /\ free # {}
  THEN Max(DOMAIN tab \cup {Min(free)}) + 1
  ELSE limit

\* An exception list as close_all_fds gets it: the descriptors followed by
\* the terminating -1; the empty sequence stands for a NULL pointer.
RECURSIVE Ascending(_)
Ascending(S) ==
  IF S = {} THEN <<>> ELSE <<Min(S)>> \o Ascending(S \ {Min(S)})

ExceptList(S) == Ascending(S) \o <<-1>>

\* The inner loop with the index not advanced past an entry that differs.
ExceptScan_one(except, i, fd) ==
  IF except[i] = -1 \/ except[i] = fd THEN i ELSE Len(except)

RECURSIVE ExceptScan(_, _, _)
\* for (i = except_start; except[i] != -1; i++) if (except[i] == fd) break;
ExceptScan(except, i, fd) ==
  IF except[i] = -1 \/ except[i] = fd THEN i ELSE ExceptScan(except, i + 1, fd)

RECURSIVE CloseExcept(_, _, _, _, _)
\* for (fd = first; fd < max_fd; fd++) with the exception list
CloseExcept(tab, fd, max_fd, except, except_start) ==
  IF fd >= max_fd THEN tab
  ELSE LET i == ExceptScan(except, except_start, fd) IN
       IF except[i] = -1
       THEN CloseExcept(Close(tab, fd), fd + 1, max_fd, except, except_start)
       ELSE CloseExcept(tab, fd + 1, max_fd, except, i + 1)

\* for (fd = first; fd < max_fd; fd++) close (fd);
CloseFrom(tab, first, max_fd) ==
  [fd \in {f \in DOMAIN tab : f < first \/ f >= max_fd} |-> tab[fd]]

\* close_all_fds (first, except): the descriptor table afterwards.
close_all_fds(tab, first, except, limit, how) ==
  LET max_fd == get_max_fds(tab, limit, how) IN
  IF except # <<>>
  THEN CloseExcept(tab, first, max_fd, except, 1)
  ELSE CloseFrom(tab, first, max_fd)

\* The array of get_all_open_fds: the values written so far (idx is their
\* number), the allocated length, and whether a write went past it.
Array(null, values, narray, overrun) ==
  [null |-> null, values |-> values, narray |-> narray, overrun |-> overrun]

\* The length the array is grown to.
Grown(narray) == narray + (IF narray < 256 THEN 32 ELSE 256)

\* The growth test off by one: the array grows only when it is full.
NeedsGrowth_late(idx, narray) == idx >= narray + 1

\* if (idx+1 >= narray)
NeedsGrowth(idx, narray) == idx + 1 >= narray

\* One turn of the loop of get_all_open_fds, for descriptor fd.  realloc gives
\* memory for at most heap entries.
ListFd(tab, fd, a, heap) ==
  IF fd \notin DOMAIN tab THEN a          \* fstat fails with EBADF
  ELSE LET idx == Len(a.values)
           grows == NeedsGrowth(idx, a.narray)
           narray == IF grows THEN Grown(a.narray) ELSE a.narray
       IN IF grows /\ narray > heap
          THEN Array(TRUE, <<>>, 0, a.overrun)     \* free (array); return NULL;
          ELSE Array(FALSE, Append(a.values, fd), narray, a.overrun \/ idx >= narray)

RECURSIVE ListRun(_, _, _, _, _)
\* The turns of the loop for the descriptors fd .. end-1.
ListRun(tab, fd, end, a, heap) ==
  IF a.null \/ fd >= end THEN a
  ELSE ListRun(tab, fd + 1, end, ListFd(tab, fd, a, heap), heap)

RECURSIVE ListOpenFds(_, _, _, _, _)
\* The loop of get_all_open_fds from fd on, taken in runs of 16 descriptors,
\* and the write of the end marker after it.
ListOpenFds(tab, fd, max_fd, a, heap) ==
  IF a.null THEN a
  ELSE IF fd >= max_fd
  THEN Array(FALSE, Append(a.values, -1), a.narray,
             a.overrun \/ Len(a.values) >= a.narray)
  ELSE ListOpenFds(tab, fd + 16, max_fd,
                   ListRun(tab, fd, Min({fd + 16, max_fd}), a, heap), heap)

\* get_all_open_fds (built with HAVE_STAT)
get_all_open_fds(tab, limit, how, heap) ==
  IF 32 > heap THEN Array(TRUE, <<>>, 0, FALSE)     \* calloc failed
  ELSE ListOpenFds(tab, 0, get_max_fds(tab, limit, how),
                   Array(FALSE, <<>>, 32, FALSE), heap)

\* ------------------------------------------------- the child after the fork
\* What the launcher leaves: whether it died in log_fatal, the descriptor
\* table at execv, the streams it called dup2 for.
Launched(fatal, tab, dups) == [fatal |-> fatal, tab |-> tab, dups |-> dups]

\* open ("/dev/null", O_RDONLY) for every stream.
OpenNull_rdonly(tab, i) ==
  IF FreeFds(tab) = {} THEN [fd |-> -1, tab |-> tab]
  ELSE [fd |-> Min(FreeFds(tab)),
        tab |-> Install(tab, Min(FreeFds(tab)), File(0, "null", "O_RDONLY"))]

\* open ("/dev/null", i ? O_WRONLY : O_RDONLY)
OpenNull(tab, i) ==
  IF FreeFds(tab) = {} THEN [fd |-> -1, tab |-> tab]
  ELSE [fd |-> Min(FreeFds(tab)),
        tab |-> Install(tab, Min(FreeFds(tab)),
                        File(0, "null", IF i = 0 THEN "O_RDONLY" ELSE "O_WRONLY"))]

RECURSIVE AssignNull(_, _, _, _)
\* Assign /dev/null to unused FDs: fds[i] for stream i is fds[i + 1] here.
AssignNull(tab, fds, i, nodevnull) ==
  IF i > 2 THEN [fatal |-> FALSE, tab |-> tab, fds |-> fds]
  ELSE IF i \in nodevnull \/ fds[i + 1] # -1
  THEN AssignNull(tab, fds, i + 1, nodevnull)
  ELSE LET o == OpenNull(tab, i) IN
       IF o.fd = -1 THEN [fatal |-> TRUE, tab |-> tab, fds |-> fds]
       ELSE AssignNull(o.tab, [fds EXCEPT ![i + 1] = o.fd], i + 1, nodevnull)

\* dup2 (oldfd, newfd)
Dup2(tab, oldfd, newfd) ==
  IF oldfd \in DOMAIN tab
  THEN [err |-> FALSE, tab |-> Install(tab, newfd, tab[oldfd])]
  ELSE [err |-> TRUE, tab |-> tab]

RECURSIVE Connect(_, _, _, _, _)
\* Connect the standard files.
Connect(tab, fds, i, nodevnull, dups) ==
  IF i > 2 THEN Launched(FALSE, tab, dups)
  ELSE IF i \in nodevnull \/ fds[i + 1] = i
  THEN Connect(tab, fds, i + 1, nodevnull, dups)
  ELSE LET d == Dup2(tab, fds[i + 1], i) IN
       IF d.err THEN Launched(TRUE, tab, dups)
       ELSE Connect(d.tab, fds, i + 1, nodevnull, dups \cup {i})

\* do_exec up to execv: nodevnull are the streams flagged GNUPG_SPAWN_KEEP_*.
do_exec(tab, fds, except, nodevnull, how) ==
  LET a == AssignNull(tab, fds, 0, nodevnull) IN
  IF a.fatal THEN Launched(TRUE, a.tab, {})
  ELSE LET c == Connect(a.tab, a.fds, 0, nodevnull, {}) IN
       IF c.fatal THEN c
       ELSE Launched(FALSE, close_all_fds(c.tab, 3, except, MaxFd, how), c.dups)

\* my_exec up to execv: fds and except are sca.fds and sca.except_fds as the
\* callback left them.  It has the two loops of do_exec without the flags.
my_exec(tab, fds, except, how) ==
  LET a == AssignNull(tab, fds, 0, {}) IN
  IF a.fatal THEN Launched(TRUE, a.tab, {})
  ELSE LET c == Connect(a.tab, a.fds, 0, {}, {}) IN
       IF c.fatal THEN c
       ELSE Launched(FALSE, close_all_fds(c.tab, 3, except, MaxFd, how), c.dups)

\* The child's part of gnupg_process_spawn after fork: it starts with a copy
\* of the parent's table pl.tab, closes the parent's ends and runs my_exec
\* without a callback (no exception list).
SpawnChild(pl, how) ==
  my_exec(CloseIf(CloseIf(CloseIf(pl.tab, E1(pl.fd_in) >= 0, E1(pl.fd_in)),
                          E0(pl.fd_out) >= 0, E0(pl.fd_out)),
                  E0(pl.fd_err) >= 0, E0(pl.fd_err)),
          <<E0(pl.fd_in), E1(pl.fd_out), E1(pl.fd_err)>>, <<>>, how)

\* What is recorded of a run of the launcher: the table on entry and the
\* arguments.
Launch(fds, except, nodevnull) ==
  [before |-> openfds, fds |-> fds, except |-> except, nodevnull |-> nodevnull]

\* The child runs the launcher once: openfds is the table of the child, and
\* the launcher ends in execv or in log_fatal.
ChildLaunch(op, l, req) ==
  /\ openfds' = l.tab
  /\ ret' = Ret(IF l.fatal THEN "log_fatal" ELSE op, "GPG_ERR_NO_ERROR", 0, req,
                FALSE, l.dups)
  /\ UNCHANGED <<osvars, terminated_children, handlevars, taken, batch, ghostvars>>

\* The descriptors that can be wired to the three streams, the exception
\* lists over the descriptors in D, the ways get_max_fds finds its value.
Wirings == [1..3 -> (DOMAIN openfds) \cup {-1}]
ExceptLists(D) == {<<>>} \cup {ExceptList(S) : S \in SUBSET D}
Hows == {"proc", "limit"}

\* The child of gnupg_spawn_process or gnupg_spawn_process_fd.
do_exec_child ==
  /\ ret.op = "none"
  /\ \E fds \in Wirings, except \in ExceptLists(DOMAIN openfds \ {0, 1}),
        nodevnull \in SUBSET {0, 1, 2}, how \in Hows :
       ChildLaunch("do_exec", do_exec(openfds, fds, except, nodevnull, how),
                   Launch(fds, except, nodevnull))

\* The child of gnupg_process_spawn.
my_exec_child ==
  /\ ret.op = "none"
  /\ \E fds \in Wirings, except \in ExceptLists(DOMAIN openfds \ {0, 1}), how \in Hows :
       ChildLaunch("my_exec", my_exec(openfds, fds, except, how),
                   Launch(fds, except, {}))

\* close_all_fds called in a process of its own accord.
close_all_fds_call(first, except, how) ==
  /\ CallerRuns
  /\ openfds' = close_all_fds(openfds, first, except, MaxFd, how)
  /\ ret' = Ret("close_all_fds", "GPG_ERR_NO_ERROR", first,
                [before |-> openfds, except |-> except], FALSE, <<>>)
  /\ UNCHANGED <<osvars, terminated_children, handlevars, taken, batch, ghostvars>>

\* get_all_open_fds called; arg is the allocated length of what it returns.
get_all_open_fds_call(how, heap) ==
  LET a == get_all_open_fds(openfds, MaxOpen, how, heap) IN
  /\ CallerRuns
  /\ ret' = Ret("get_all_open_fds", IF a.null THEN "GPG_ERR_ENOMEM" ELSE "GPG_ERR_NO_ERROR",
                a.narray, [overrun |-> a.overrun], FALSE, a.values)
  /\ UNCHANGED <<osvars, terminated_children, handlevars, fdvars, batch, ghostvars>>

\* The kernel gives the pid of a reaped child free for a later fork.  (The
\* guard keeps the cache, which the records of a reused pid lengthen, short.)
PidRecycled(p) ==
  /\ child[p] = "reaped"
  /\ Len(terminated_children) <= 1
  /\ child' = [child EXCEPT ![p] = "unborn"]
  /\ wstat' = [wstat EXCEPT ![p] = NoStatus]
  /\ UNCHANGED <<terminated_children, handlevars, fdvars, batch, ret, ghostvars>>

\* ------------------------------------------------------------ specifications
InitOS ==
  /\ child = [p \in Pids |-> "unborn"]
  /\ wstat = [p \in Pids |-> NoStatus]
  /\ terminated_children = <<>>

InitRest ==
  /\ proc = [h \in Hids |-> EmptyProc]
  /\ held = {}
  /\ taken = {}
  /\ batch = IdleBatch
  /\ ret = NoRet
  /\ got = {}
  /\ dup = {}

PidArgs == Pids \cup {NoPid}
PidLists == UNION {[1..n -> PidArgs] : n \in 1..MaxCount}

\* Children known by pid, and batch waits for them.
InitReap == InitOS /\ InitRest /\ openfds = StdTable

NextReap ==
  \/ gnupg_spawn_process_fd(TRUE)
  \/ \E p \in Pids, status \in ReapStatuses : ChildExit(p, status)
  \/ \E pids \in PidLists, hang \in BOOLEAN :
       gnupg_wait_processes_enter(pids, hang, TRUE)
  \/ gnupg_wait_processes_waitpid

SpecReap == InitReap /\ [][NextReap]_vars

\* The handle interface.
HandleFlags == {{}, {"STDIN_PIPE", "STDOUT_PIPE", "STDERR_PIPE"}, {"DETACHED"}}
HandleLists == UNION {[1..n -> Hids] : n \in 1..MaxHandles}

InitHandle == InitOS /\ InitRest /\ openfds = StdTable

NextHandle ==
  \/ \E flags \in HandleFlags, has_slot \in BOOLEAN, fail \in {"none", "fork"},
        ub \in {"fault", "elided"} : gnupg_process_spawn(flags, has_slot, fail, ub)
  \/ gnupg_process_spawn_reap
  \/ \E p \in Pids, status \in HandleStatuses : ChildExit(p, status)
  \/ \E h \in Hids : gnupg_process_terminate(h)
  \/ \E h \in Hids, wants \in SUBSET Streams : gnupg_process_get_fds(h, wants)
  \/ \E h \in Hids, wants \in {{"in"}, {"out", "err"}} :
       gnupg_process_get_streams(h, wants)
  \/ \E h \in Hids, request \in CtlRequests : gnupg_process_ctl(h, request)
  \/ \E h \in Hids, hang \in BOOLEAN : gnupg_process_wait(h, hang)
  \/ \E list \in HandleLists, hang \in BOOLEAN : gnupg_process_wait_list(list, hang)
  \/ \E h \in Hids : gnupg_process_release(h)

SpecHandle == InitHandle /\ [][NextHandle]_vars

\* Both interfaces on the one wait queue of the process: children of handles
\* and children known by pid, single waits and batch waits.
InitShared ==
  /\ InitOS
  /\ openfds = StdTable
  /\ held = {} /\ taken = {} /\ batch = IdleBatch /\ ret = NoRet
  /\ got = {} /\ dup = {}
  \* the handles but the first were allocated and released before
  /\ proc = [h \in Hids |-> IF h = 1 THEN EmptyProc
                                    ELSE [EmptyProc EXCEPT !.mem = "freed"]]

NextShared ==
  \/ gnupg_spawn_process_fd(TRUE)
  \/ gnupg_process_spawn({}, TRUE, "none", "elided")
  \/ \E p \in Pids, status \in HandleStatuses : ChildExit(p, status)
  \/ \E pid \in Pids, hang \in BOOLEAN : gnupg_wait_process(pid, hang, TRUE)
  \/ \E h \in Hids, hang \in BOOLEAN : gnupg_process_wait(h, hang)
  \/ \E pid \in Pids : gnupg_wait_processes_enter(<<pid>>, FALSE, TRUE)
  \/ gnupg_wait_processes_waitpid

SpecShared == InitShared /\ [][NextShared]_vars

\* Spawning under every combination of pipe and socket pair requests and every
\* failing step, from descriptor tables with and without a further file open.
Pipes == {"STDIN_PIPE", "STDOUT_PIPE", "STDERR_PIPE"}
PipeFlags ==
  (SUBSET Pipes)
    \cup {{"STDINOUT_SOCKETPAIR"}, {"STDINOUT_SOCKETPAIR", "STDERR_PIPE"}}
    \cup {{"STDIN_NULL", "STDOUT_NULL", "STDERR_NULL"},
          {"STDIN_NULL", "STDOUT_PIPE", "STDERR_NULL"}}
DetachedFlags == {{"DETACHED"}, {"DETACHED", "STDIN_PIPE"}}

\* The steps of a spawn with these flags that can fail.
FailPoints(flags) ==
  IF "DETACHED" \in flags
  THEN IF flags \cap STDFDS_SETTING # {} THEN {"none"}
       ELSE {"none", "fork", "uid", "access", "waitpid", "child"}
  ELSE {"none", "fork"}
         \cup (IF "STDINOUT_SOCKETPAIR" \in flags THEN {"socketpair"}
               ELSE IF "STDIN_PIPE" \in flags THEN {"stdin_pipe"} ELSE {})
         \cup (IF "STDOUT_PIPE" \in flags /\ "STDINOUT_SOCKETPAIR" \notin flags
               THEN {"stdout_pipe"} ELSE {})
         \cup (IF "STDERR_PIPE" \in flags THEN {"stderr_pipe"} ELSE {})

\* The steps of gnupg_spawn_process for these streams that can fail.
LegacyFailPoints(wants) ==
  {"none", "fork"} \cup UNION {{s \o "_pipe", s \o "_stream"} : s \in {"std" \o w : w \in wants}}

\* The process has forked and reaped children before, and holds files of its
\* own next to the standard streams.
InitSpawn ==
  /\ InitRest
  /\ terminated_children = <<>>
  /\ child = [p \in Pids |-> IF p = 1 THEN "unborn" ELSE "reaped"]
  /\ wstat = [p \in Pids |-> IF p = 1 THEN NoStatus ELSE W_EXITCODE(0)]
  /\ \E extra \in SUBSET {3, 4} :
       openfds = [fd \in {0, 1, 2} \cup extra |->
                    IF fd <= 2 THEN File(0, "std", fd) ELSE File(0, "file", fd)]

NextSpawn ==
  \/ \E flags \in PipeFlags, has_slot \in BOOLEAN :
       \E fail \in FailPoints(flags) :
         gnupg_process_spawn(flags, has_slot, fail, "elided")
  \/ \E flags \in DetachedFlags, has_slot \in BOOLEAN, ub \in {"fault", "elided"} :
       \E fail \in FailPoints(flags) :
         gnupg_process_spawn(flags, has_slot, fail, ub)
  \/ gnupg_process_spawn_reap
  \/ \E wants \in SUBSET Streams :
       \E fail \in LegacyFailPoints(wants) : gnupg_spawn_process(wants, fail)
  \/ \E fork_ok \in BOOLEAN : gnupg_spawn_process_fd(fork_ok)
  \/ \E fail \in FailPoints({"DETACHED"}) : gnupg_spawn_process_detached(fail)
  \/ \E p \in Pids : ChildExit(p, W_EXITCODE(0))

SpecSpawn == InitSpawn /\ [][NextSpawn]_vars

\* The classification of every raw status: one terminated child, waited for
\* by pid or in a batch of one.
InitClassify ==
  /\ InitRest
  /\ openfds = StdTable
  /\ terminated_children = <<>>
  /\ child = [p \in Pids |-> IF p = 1 THEN "zombie" ELSE "unborn"]
  /\ \E status \in AllRawStatuses :
       wstat = [p \in Pids |-> IF p = 1 THEN status ELSE NoStatus]

NextClassify ==
  \/ \E hang \in BOOLEAN, has_slot \in BOOLEAN : gnupg_wait_process(1, hang, has_slot)
  \/ \E hang \in BOOLEAN, has_codes \in BOOLEAN :
       gnupg_wait_processes_enter(<<1>>, hang, has_codes)
  \/ gnupg_wait_processes_waitpid

SpecClassify == InitClassify /\ [][NextClassify]_vars

\* The child between fork and execv: its standard streams and some of the
\* files of the parent are open, any of them or none is wired to a stream.
FileTable(D) ==
  [fd \in D |-> IF fd <= 2 THEN File(0, "std", fd) ELSE File(0, "file", fd)]

InitChild ==
  /\ InitOS /\ InitRest
  /\ \E extra \in SUBSET {3, 4, 5} : openfds = FileTable({0, 1, 2} \cup extra)

NextChild == do_exec_child \/ my_exec_child

SpecChild == InitChild /\ [][NextChild]_vars

\* close_all_fds in a process with any set of descriptors open.
InitClose ==
  /\ InitOS /\ InitRest
  /\ \E D \in SUBSET (0..(MaxFd - 3)) : openfds = FileTable(D)

NextClose ==
  \E first \in 0..4, except \in ExceptLists(DOMAIN openfds), how \in Hows :
    close_all_fds_call(first, except, how)

SpecClose == InitClose /\ [][NextClose]_vars

\* get_all_open_fds in a process with up to MaxOpen descriptors open, with
\* or without a gap among them.
InitEnum ==
  /\ InitOS /\ InitRest
  /\ \E n \in 0..MaxOpen, gap \in {-1, 1, 40} :
       openfds = FileTable((0..(n - 1)) \ {gap})

NextEnum == \E how \in Hows, heap \in {16, 32, 64, 256, 512} : get_all_open_fds_call(how, heap)

SpecEnum == InitEnum /\ [][NextEnum]_vars

\* The status queries: the handle of a child that runs and terminates with any
\* status, and the handle of a detached spawn.
InitStatus ==
  /\ terminated_children = <<>>
  /\ openfds = StdTable
  /\ taken = {} /\ batch = IdleBatch /\ ret = NoRet /\ got = {} /\ dup = {}
  /\ child = [p \in Pids |-> IF p = 1 THEN "running" ELSE "unborn"]
  /\ wstat = [p \in Pids |-> NoStatus]
  /\ held = {1, 2}
  /\ proc = [h \in Hids |->
               IF h = 1
               THEN [NewProc({}) EXCEPT !.pid = 1, !.fd_in = -1, !.fd_out = -1,
                                        !.fd_err = -1, !.wstatus = -1]
               ELSE IF h = 2
               THEN [NewProc({"DETACHED"}) EXCEPT !.pid = -1, !.fd_in = -1,
                       !.fd_out = -1, !.fd_err = -1, !.wstatus = -1,
                       !.terminated = TRUE]
               ELSE EmptyProc]

NextStatus ==
  \/ \E status \in AllRawStatuses : ChildExit(1, status)
  \/ \E h \in Hids, hang \in BOOLEAN : gnupg_process_wait(h, hang)
  \/ \E h \in Hids, request \in CtlRequests : gnupg_process_ctl(h, request)

SpecStatus == InitStatus /\ [][NextStatus]_vars

\* Batch waits in a process that lives long enough for the kernel to hand
\* out the pid of a reaped child again.
InitReuse ==
  /\ InitRest
  /\ openfds = StdTable
  /\ terminated_children = <<>>
  /\ child = [p \in Pids |-> IF p <= 2 THEN "unborn" ELSE "reaped"]
  /\ wstat = [p \in Pids |-> IF p <= 2 THEN NoStatus ELSE W_EXITCODE(0)]

NextReuse ==
  \/ gnupg_spawn_process_fd(TRUE)
  \/ \E p \in Pids, status \in ReapStatuses \cup {W_EXITCODE(ExitNotFound)} :
       ChildExit(p, status)
  \/ PidRecycled(1)
  \/ \E pids \in {<<2>>, <<1, 2>>, <<NoPid, 1>>}, hang \in BOOLEAN :
       gnupg_wait_processes_enter(pids, hang, TRUE)
  \/ gnupg_wait_processes_waitpid

SpecReuse == InitReuse /\ [][NextReuse]_vars

\* A caller polls for two of its children: it repeats the batch wait without
\* hang, with the same list, for as long as the wait returns GPG_ERR_TIMEOUT.
\* All children have been forked and run.
PollList == <<1, 2>>

InitPoll ==
  /\ InitRest
  /\ openfds = StdTable
  /\ terminated_children = <<>>
  /\ child = [p \in Pids |-> "running"]
  /\ wstat = [p \in Pids |-> NoStatus]

gnupg_wait_processes_poll ==
  /\ ret.op = "none" \/ (ret.op = "wait_processes" /\ ret.ec = "GPG_ERR_TIMEOUT")
  /\ gnupg_wait_processes_enter(PollList, FALSE, TRUE)

NextPoll ==
  \/ \E p \in Pids, status \in ReapStatuses : ChildExit(p, status)
  \/ gnupg_wait_processes_poll
  \/ gnupg_wait_processes_waitpid

SpecPoll == InitPoll /\ [][NextPoll]_vars

\* ------------------------------------------------------------------ claims
HasRecord(pid) == FirstIndex(terminated_children, pid, 1) # 0

\* What a batch wait leaves in a slot of r_exitcodes for a child that
\* terminated with the raw status: the exit code for a failure exit other
\* than 127, the raw status (0 for a clean exit) otherwise.
SlotValue(status) ==
  IF \E c \in (1..255) \ {ExitNotFound} : status = W_EXITCODE(c)
  THEN status \div 256
  ELSE status

\* A batch wait has returned and nothing was called since.
BatchReturned == batch.pc = "idle" /\ ret.op = "wait_processes"

\* C1: a blocking batch wait over distinct pids, each a child not yet reaped
\* or a pid with a cached status, returns with every pid resolved to the
\* status of its own child, whatever the order in which the children (listed
\* or not) terminated and were reaped; no listed child is left unreaped, and
\* the call fails neither with ECHILD nor with TIMEOUT.
C1_BatchResolvesAll ==
  (BatchReturned /\ ret.hang /\ batch.pre) =>
    /\ ret.ec \notin {"GPG_ERR_ECHILD", "GPG_ERR_TIMEOUT"}
    /\ Len(ret.out) = Len(ret.req)
    /\ \A i \in 1..Len(ret.req) :
         /\ child[ret.req[i]] = "reaped"
         /\ ret.out[i] # -1
         /\ ret.out[i] = SlotValue(wstat[ret.req[i]])
    /\ (ret.ec = "GPG_ERR_NO_ERROR") <=>
         (\A i \in 1..Len(ret.req) : wstat[ret.req[i]] = W_EXITCODE(0))

\* A blocking wait for two children with different statuses has returned: one
\* was answered from the cache, the other reaped by the call, and a child
\* that was not listed went into the cache.
C1_Witness ==
  /\ BatchReturned /\ ret.hang /\ batch.pre
  /\ Len(ret.req) = 2
  /\ wstat[ret.req[1]] # wstat[ret.req[2]]
  /\ Cardinality(batch.served) = 1
  /\ \E p \in Pids : p \notin Range(ret.req) /\ HasRecord(p)

RecordsIn(list, pid) == {i \in 1..Len(list) : list[i].pid = pid}

\* The cache never holds two records for a pid; a record is for a reaped child,
\* carries its status, and that status has not been delivered; no status was
\* delivered twice; once the lookups of a batch wait are done no listed pid
\* has a record left, and a slot that was filled holds its own child's status.
C6_State ==
  /\ \A p \in Pids : Cardinality(RecordsIn(terminated_children, p)) <= 1
  /\ \A i \in 1..Len(terminated_children) :
       LET r == terminated_children[i] IN
       /\ r.pid \in Pids
       /\ child[r.pid] = "reaped"
       /\ r.exitcode = wstat[r.pid]
       /\ r.pid \notin got
  /\ dup = {}
  /\ batch.served \subseteq got
  /\ batch.pc = "waitpid" =>
       \A i \in 1..Len(batch.pids) : ~HasRecord(batch.pids[i])
  /\ BatchReturned =>
       \A i \in 1..Len(ret.req) :
         /\ ~HasRecord(ret.req[i])
         /\ ret.out[i] # -1 => ret.out[i] = SlotValue(wstat[ret.req[i]])

\* A child reaped by a batch wait that did not list it gets one record.
C6_Step ==
  \A p \in Pids :
    (batch.pc = "waitpid" /\ child[p] = "zombie" /\ child'[p] = "reaped"
       /\ p \notin Range(batch.pids))
    => /\ Cardinality(RecordsIn(terminated_children', p)) = 1
       /\ terminated_children'[1] = [pid |-> p, exitcode |-> wstat[p]]
       /\ Len(terminated_children') = Len(terminated_children) + 1

\* C6: a child reaped while outside the requested set of a batch wait gets
\* exactly one exit record; the first later batch wait that lists its pid
\* receives the recorded status and removes the record, and every lookup
\* after that misses; the cache never holds two records for one pid.
C6_OneRecordConsumedOnce == []C6_State /\ [][C6_Step]_vars

\* A batch wait was answered from the cache for one pid, whose record is
\* gone, while the record of another child is still waiting.
C6_Witness ==
  /\ BatchReturned
  /\ \E p \in batch.served : ~HasRecord(p) /\ p \in Range(ret.req)
  /\ \E q \in Pids : HasRecord(q)

\* gnupg_wait_process has returned with what it made of a status it reaped.
SingleWaitReaped ==
  /\ ret.op = "wait_process"
  /\ ret.ec \notin {"GPG_ERR_ECHILD", "GPG_ERR_TIMEOUT", "GPG_ERR_INV_VALUE"}

\* The value in the caller's exit code slot, when a slot was given.
SlotHolds(value) == ret.out = <<>> \/ ret.out = <<value>>

\* C5: the single-pid wait turns exit code 0 into success with 0 in the
\* slot, exit code 127 into the configuration error, any other exit code c
\* into the general error with c in the slot, and death by a signal into the
\* general error with -1 in the slot; every terminated child falls into
\* exactly one of the four cases.
C5_Classification ==
  SingleWaitReaped =>
    LET status == wstat[ret.arg]
        clean == status = W_EXITCODE(0)
        notfound == status = W_EXITCODE(ExitNotFound)
        failed == \E c \in (1..255) \ {ExitNotFound} : status = W_EXITCODE(c)
        signalled == \E sig \in 1..126 : status \in {sig, 128 + sig}
    IN /\ child[ret.arg] = "reaped"
       /\ Cardinality({k \in {"clean", "notfound", "failed", "signalled"} :
                         \/ k = "clean" /\ clean
                         \/ k = "notfound" /\ notfound
                         \/ k = "failed" /\ failed
                         \/ k = "signalled" /\ signalled}) = 1
       /\ clean => ret.ec = "GPG_ERR_NO_ERROR" /\ SlotHolds(0)
       /\ notfound => ret.ec = "GPG_ERR_CONFIGURATION" /\ SlotHolds(-1)
       /\ failed => ret.ec = "GPG_ERR_GENERAL" /\ SlotHolds(status \div 256)
       /\ signalled => ret.ec = "GPG_ERR_GENERAL" /\ SlotHolds(-1)

\* The single-pid wait reaped a child that had exited with code 37 and
\* returned the general error with 37 in the slot.
C5_Witness ==
  /\ SingleWaitReaped
  /\ wstat[ret.arg] = W_EXITCODE(37)
  /\ ret.ec = "GPG_ERR_GENERAL"
  /\ ret.out = <<37>>

\* The step is the return of a call of op for arg (a repeated call that
\* returns what the one before returned and changes nothing is no step).
Returns(op, arg) ==
  /\ ret'.op = op /\ ret'.arg = arg
  /\ ret.op # op \/ ret' # ret

\* C2: once a batch wait has reaped a child X that it was not asked for, a
\* later wait for X through gnupg_wait_process or through the handle of X
\* obtains the status of X and removes the record from the cache, instead of
\* failing because the child is gone.
C2_SingleWaitFindsCachedStatus ==
  [][\A X \in Pids :
       HasRecord(X) =>
         /\ Returns("wait_process", X) =>
              /\ ret'.ec = Classify(wstat[X]).ec
              /\ RecordsIn(terminated_children', X) = {}
         /\ \A h \in Hids :
              (Returns("process_wait", h) /\ proc[h].pid = X) =>
                /\ ret'.ec = "GPG_ERR_NO_ERROR"
                /\ proc'[h].terminated
                /\ proc'[h].wstatus = wstat[X]
                /\ RecordsIn(terminated_children', X) = {}]_vars

\* C3: gnupg_process_release of a handle whose child has not terminated sends
\* the termination signal and waits for the child before it frees the
\* handle, so that the child of a released handle is neither running nor a
\* zombie.
C3_ReleaseReapsChild ==
  \A h \in Hids :
    (proc[h].mem = "freed" /\ proc[h].pid \in Pids) => child[proc[h].pid] = "reaped"

\* A take hands out the value of each requested slot and leaves the slot
\* unowned; the descriptor it hands out was not handed out before; the slots
\* not requested keep their value.
C7_Take ==
  \A h \in Hids :
    Returns("process_get_fds", h) =>
      /\ \A s \in ret'.req :
           /\ ret'.out[s] = SlotOf(proc[h], s)
           /\ SlotOf(proc'[h], s) = NoFd
           /\ ret'.out[s] # NoFd => ret'.out[s] \notin taken
      /\ \A s \in Streams \ ret'.req : SlotOf(proc'[h], s) = SlotOf(proc[h], s)

\* A slot that is unowned stays unowned for as long as the handle lives.
C7_Unowned ==
  \A h \in Hids, s \in Streams :
    (Usable(h) /\ SlotOf(proc[h], s) = NoFd) => SlotOf(proc'[h], s) = NoFd

\* Releasing a handle closes no descriptor.
C7_Release ==
  \A h \in Hids : Returns("process_release", h) => DOMAIN openfds' = DOMAIN openfds

\* C7: gnupg_process_get_fds hands each parent-side descriptor to the caller
\* exactly once: the first take of a slot returns the descriptor and leaves
\* the slot unowned, every later take of it returns -1, slots that were not
\* requested are unchanged, and releasing the handle never closes a
\* descriptor that was taken.
C7_TakeOnce ==
  [][C7_Take /\ C7_Unowned /\ C7_Release]_vars /\ [](taken \subseteq DOMAIN openfds)

\* A take asked for stdin and stdout of a handle with three pipes: stdin had
\* been taken before and came back as -1, stdout was handed out now, the
\* slot of stderr, not asked for, still owns its descriptor.
C7_Witness ==
  /\ ret.op = "process_get_fds"
  /\ ret.req = {"in", "out"}
  /\ ret.out["in"] = NoFd
  /\ ret.out["out"] \in taken
  /\ proc[ret.arg].fd_out = NoFd
  /\ proc[ret.arg].fd_err \in DOMAIN openfds

\* C8: a non-blocking wait on a handle whose child is still running returns
\* GPG_ERR_TIMEOUT, which no other outcome of the wait returns, and leaves
\* terminated false and the stored status as it was, as often as it is
\* repeated; once the child has exited, one wait marks the handle terminated
\* and stores the status of the child.
C8_NonBlockingWait ==
  [][\A h \in Hids :
       (Returns("process_wait", h) /\ ~proc[h].terminated /\ proc[h].pid \in Pids) =>
         LET pid == proc[h].pid IN
         /\ (child[pid] = "running" /\ ~ret'.hang) =>
              /\ ret'.ec = "GPG_ERR_TIMEOUT"
              /\ proc'[h] = proc[h]
              /\ child' = child
         /\ child[pid] = "zombie" =>
              /\ ret'.ec = "GPG_ERR_NO_ERROR"
              /\ proc'[h].terminated
              /\ proc'[h].wstatus = wstat[pid]
              /\ child'[pid] = "reaped"
         /\ ret'.ec = "GPG_ERR_TIMEOUT" => (child[pid] = "running" /\ ~ret'.hang)]_vars

\* A non-blocking wait has returned GPG_ERR_TIMEOUT for a handle whose child
\* still runs; the handle is not terminated and stores no status.
C8_Witness ==
  /\ ret.op = "process_wait" /\ ~ret.hang
  /\ ret.ec = "GPG_ERR_TIMEOUT"
  /\ Usable(ret.arg)
  /\ child[proc[ret.arg].pid] = "running"
  /\ ~proc[ret.arg].terminated
  /\ proc[ret.arg].wstatus = NoStatus

\* C9: when a detached spawn returns success the first child has been reaped
\* inside the call, the handle it returns is terminated, has pid -1 and owns
\* no descriptor; the call completes whether or not the caller supplied a
\* slot for the handle.
C9_DetachedSpawn ==
  /\ ret.op # "crashed"
  /\ (ret.op = "process_spawn" /\ ret.ec = "GPG_ERR_NO_ERROR" /\ ~ret.hang) =>
       /\ \A p \in Zombies : \E h \in Hids : proc[h].pid = p
       /\ (ret.arg \in Hids /\ "DETACHED" \in proc[ret.arg].flags) =>
            /\ proc[ret.arg].terminated
            /\ proc[ret.arg].pid = NoPid
            /\ proc[ret.arg].fd_in = NoFd
            /\ proc[ret.arg].fd_out = NoFd
            /\ proc[ret.arg].fd_err = NoFd

\* C10: over the operations on a handle terminated never goes back from true
\* to false, the stored status is written only in the step that sets
\* terminated, and it is the no-status value while terminated is false.
C10_TerminatedMonotonic ==
  /\ [][\A h \in Hids :
       (Usable(h) /\ proc'[h].mem \in {"live", "freed"}) =>
         /\ proc[h].terminated => proc'[h].terminated
         /\ proc'[h].wstatus # proc[h].wstatus =>
              (~proc[h].terminated /\ proc'[h].terminated)
         /\ ~proc'[h].terminated => proc'[h].wstatus = NoStatus]_vars
  /\ [](\A h \in Hids :
          (Usable(h) /\ ~proc[h].terminated) => proc[h].wstatus = NoStatus)

\* A handle was marked terminated with the status of a child killed by
\* SIGTERM, and an operation after that read the status back.
C10_Witness ==
  /\ ret.op = "process_ctl" /\ ret.req = "GET_WSTATUS"
  /\ ret.out = <<0, 1, 0, SIGTERM>>
  /\ proc[ret.arg].terminated
  /\ proc[ret.arg].wstatus = SIGTERM

\* A spawn function has returned an error, and nothing was called since.
SpawnFailed ==
  /\ CallerRuns
  /\ ret.op \in {"process_spawn", "spawn_process"}
  /\ ret.ec # "GPG_ERR_NO_ERROR"
  /\ ~ret.hang

\* C4: when gnupg_process_spawn or gnupg_spawn_process fails, at the first,
\* second or third pipe, at the socket pair or at fork, the descriptors open
\* in the caller are those that were open when the call was made: every
\* descriptor the call had created by then is closed again, and none of the
\* caller's own is.
C4_RollbackRestoresDescriptors == SpawnFailed => openfds = ret.req.before

\* gnupg_process_spawn failed creating a pipe after it had made one, in a
\* process that holds a file of its own; and the two ends are closed again.
C4_Witness ==
  /\ SpawnFailed
  /\ ret.op = "process_spawn"
  /\ ret.ec = "GPG_ERR_EMFILE"
  /\ ret.req.made = 2
  /\ 3 \in DOMAIN ret.req.before
  /\ Cardinality(FreeFds(openfds)) >= 4

\* C11: every error return of gnupg_process_spawn (the flag check, a pipe or
\* the socket pair, fork, and the failures inside spawn_detached) leaves the
\* caller's handle slot NULL and the handle the call allocated freed.
C11_ErrorLeavesNoHandle ==
  [][\A h \in Hids :
       (/\ CallerRuns /\ batch'.pc = "idle"
        /\ proc[h].mem = "unalloc" /\ proc'[h].mem # "unalloc"
        /\ ret'.op = "process_spawn" /\ ret'.ec # "GPG_ERR_NO_ERROR")
       => /\ ret'.arg = 0
          /\ proc'[h].mem = "freed"]_vars

\* The step is part of a detached spawn.
DetachedStep ==
  \/ \E h \in Hids :
       proc[h].mem = "unalloc" /\ proc'[h].mem # "unalloc" /\ "DETACHED" \in proc'[h].flags
  \/ ret'.op = "spawn_process_detached" /\ proc' = proc /\ batch' = batch

\* A step of a spawn that is not detached makes a child only when the call
\* succeeds, and then the caller gets the pid or the handle of the child, or,
\* having given no slot, gets control back only once the child is reaped.
C12_Step ==
  /\ \A p \in Pids :
       (child[p] = "unborn" /\ child'[p] # "unborn" /\ ~DetachedStep) =>
         /\ child'[p] = "running"
         /\ \/ /\ batch'.pc = "idle"
               /\ ret'.ec = "GPG_ERR_NO_ERROR"
               /\ ret'.op \in {"spawn_process", "spawn_process_fd"}
               /\ ret'.arg = p
            \/ /\ batch'.pc = "idle"
               /\ ret'.ec = "GPG_ERR_NO_ERROR"
               /\ ret'.op = "process_spawn"
               /\ ret'.arg \in held'
               /\ proc'[ret'.arg].mem = "live"
               /\ proc'[ret'.arg].pid = p
            \/ /\ batch'.pc = "spawn_wait"
               /\ proc'[batch'.h].pid = p
  /\ (batch.pc = "spawn_wait" /\ batch'.pc = "idle") =>
       child'[proc[batch.h].pid] = "reaped"

\* C12: when gnupg_process_spawn (not detached), gnupg_spawn_process or
\* gnupg_spawn_process_fd returns an error, the call has left no child
\* running or waiting to be reaped; a child that a call made belongs to a
\* handle or a pid the caller was given.
C12_FailedSpawnLeavesNoChild == [][C12_Step]_vars

\* gnupg_process_spawn has made its three pipes, fork failed, and there is
\* no child.
C12_Witness ==
  /\ SpawnFailed
  /\ ret.op = "process_spawn"
  /\ ret.ec = "GPG_ERR_EAGAIN"
  /\ ret.req.made = 6
  /\ Running \cup Zombies = {}
  /\ child[1] = "unborn"

\* The launcher has reached execv.
Launched_execv == ret.op \in {"do_exec", "my_exec"}

\* C13: whatever descriptors are wired to the three streams, also ones in
\* 0..2 wired to another stream than their own and one descriptor wired
\* twice, after the remapping stream i is the file that the descriptor wired
\* to it was on entry; dup2 is not called for a descriptor already in place.
C13_RemapKeepsWiring ==
  Launched_execv =>
    \A i \in 0..2 :
      (i \notin ret.req.nodevnull /\ ret.req.fds[i + 1] # -1) =>
        /\ i \in DOMAIN openfds
        /\ openfds[i] = ret.req.before[ret.req.fds[i + 1]]
        /\ ret.req.fds[i + 1] = i => i \notin ret.out

\* The descriptors of an exception list.
Excepted(except) == {except[k] : k \in 1..Len(except)} \ {-1}

\* C14: at execv every standard stream that is not flagged keep and has no
\* descriptor wired is the null device, open for reading as stream 0 and for
\* writing as stream 1 or 2, and no descriptor from 3 on is open unless the
\* exception list names it.
C14_NullAndClosed ==
  Launched_execv =>
    /\ \A i \in 0..2 :
         (i \notin ret.req.nodevnull /\ ret.req.fds[i + 1] = -1) =>
           /\ i \in DOMAIN openfds
           /\ openfds[i] = File(0, "null", IF i = 0 THEN "O_RDONLY" ELSE "O_WRONLY")
    /\ \A fd \in DOMAIN openfds : fd >= 3 => fd \in Excepted(ret.req.except)
    /\ \A i \in ret.req.nodevnull : openfds[i] = ret.req.before[i]

\* do_exec ran with files 3, 4 and 5 open, 5 wired to standard output, no
\* descriptor wired to standard input or error, standard error flagged keep,
\* and 4 excepted: 4 is the one descriptor left open from 3 on.
C14_Witness ==
  /\ ret.op = "do_exec"
  /\ ret.req.fds = <<-1, 5, -1>>
  /\ ret.req.nodevnull = {2}
  /\ ret.req.except = <<4, -1>>
  /\ DOMAIN ret.req.before = {0, 1, 2, 3, 4, 5}
  /\ DOMAIN openfds = {0, 1, 2, 4}
  /\ openfds[0].what = "null"

\* C15: after close_all_fds (first, except), with except in ascending order
\* and made of open descriptors, or NULL, every descriptor from first on that
\* except does not name is closed, every one it names is open, and every
\* descriptor below first is as it was.
C15_CloseAllExcept ==
  ret.op = "close_all_fds" =>
    LET D == DOMAIN ret.req.before
        E == Excepted(ret.req.except)
    IN /\ \A fd \in D : (fd >= ret.arg /\ fd \notin E) => fd \notin DOMAIN openfds
       /\ \A fd \in E : fd \in DOMAIN openfds
       /\ \A fd \in D : fd < ret.arg => fd \in DOMAIN openfds
       /\ \A fd \in DOMAIN openfds : fd \in D /\ openfds[fd] = ret.req.before[fd]

\* close_all_fds (3, {1, 4, 6, -1}) ran with 0..6 open: an entry below first,
\* and 3 and 5 closed between the entries kept.
C15_Witness ==
  /\ ret.op = "close_all_fds"
  /\ ret.arg = 3
  /\ ret.req.except = <<1, 4, 6, -1>>
  /\ DOMAIN ret.req.before = 0..6
  /\ DOMAIN openfds = {0, 1, 2, 4, 6}

\* C16: get_all_open_fds returns the open descriptors in strictly ascending
\* order followed by -1, for any number of them; it writes nothing past the
\* allocated length; when the array cannot be allocated or grown it returns
\* NULL with the array freed.
C16_ListsOpenFds ==
  ret.op = "get_all_open_fds" =>
    /\ ~ret.req.overrun
    /\ IF ret.ec = "GPG_ERR_NO_ERROR"
       THEN LET n == Len(ret.out) IN
            /\ n >= 1 /\ n <= ret.arg
            /\ ret.out[n] = -1
            /\ \A k \in 1..(n - 1) : ret.out[k] \in DOMAIN openfds
            /\ \A k \in 1..(n - 2) : ret.out[k] < ret.out[k + 1]
            /\ n - 1 = Cardinality(DOMAIN openfds)
       ELSE ret.out = <<>> /\ ret.arg = 0

\* 256 descriptors are open, one gap among them: the array was grown from 32
\* to 512 entries and holds them all.
C16_Witness ==
  /\ ret.op = "get_all_open_fds"
  /\ ret.ec = "GPG_ERR_NO_ERROR"
  /\ Cardinality(DOMAIN openfds) = 256
  /\ 40 \notin DOMAIN openfds
  /\ Len(ret.out) = 257
  /\ ret.arg = 512

\* The last call was this status query; the handle is as the query found it.
StatusQuery(request) == ret.op = "process_ctl" /\ ret.req = request

\* What the status queries answer, but for the exit status that GET_EXIT_ID
\* gives for a child killed by a signal: unfinished and nothing written exactly
\* when the handle is not terminated; 1, 0, c, 0 and c after an exit with
\* code c; 0, 1, 0, s after death by signal s.
StatusAnswers(exit_id_signalled) ==
  \A request \in {"GET_WSTATUS", "GET_EXIT_ID"} :
    StatusQuery(request) =>
      LET pr == proc[ret.arg]
          all == request = "GET_WSTATUS"
      IN /\ (ret.ec = "GPG_ERR_UNFINISHED") <=> ~pr.terminated
         /\ ret.ec \in {"GPG_ERR_UNFINISHED", "GPG_ERR_NO_ERROR"}
         /\ ~pr.terminated => ret.out = <<>>
         /\ \A c \in 0..255 :
              (pr.terminated /\ pr.wstatus = W_EXITCODE(c)) =>
                ret.out = IF all THEN <<1, 0, c, 0>> ELSE <<c>>
         /\ \A sig \in 1..126 :
              (pr.terminated /\ pr.wstatus \in {sig, 128 + sig}) =>
                ret.out = IF all THEN <<0, 1, 0, sig>> ELSE <<exit_id_signalled>>

\* C17 as stated: GET_WSTATUS and GET_EXIT_ID fail with GPG_ERR_UNFINISHED,
\* writing nothing, exactly when the handle is not terminated; after a normal
\* exit with code c they report exited 1, signaled 0, exit code c, signal 0;
\* after death by signal s they report exited 0, signaled 1, exit code 0,
\* signal s.
C17_AsStated == StatusAnswers(0)

\* C17: as above, except that GET_EXIT_ID reports -1, not 0, as the exit
\* status of a child that a signal killed.
C17_StatusQueries == StatusAnswers(-1)

\* GET_EXIT_ID was asked of the handle of a child that a signal killed with a
\* core dump.
C17_Witness ==
  /\ StatusQuery("GET_EXIT_ID")
  /\ proc[ret.arg].terminated
  /\ proc[ret.arg].wstatus = 128 + SIGTERM
  /\ ret.ec = "GPG_ERR_NO_ERROR"
  /\ ret.out = <<-1>>

\* C18: when a batch wait without hang finds at its waitpid that children
\* run but none has terminated, while a listed pid is unresolved, it returns
\* GPG_ERR_TIMEOUT, whatever the statuses of the pids it resolved before, and
\* the unresolved pids keep -1.
C18_StillRunning ==
  [][(/\ batch.pc = "waitpid" /\ ~batch.hang
      /\ Zombies = {} /\ Running # {}
      /\ batch'.pc = "idle")
     => /\ ret'.op = "wait_processes"
        /\ ret'.ec = "GPG_ERR_TIMEOUT"
        /\ \A i \in 1..Len(batch.pids) :
             batch.r_exitcodes[i] = -1 => ret'.out[i] = -1]_vars

\* C19: for every raw status the value that a batch wait writes for the pid
\* into r_exitcodes is the value that gnupg_wait_process writes into
\* *r_exitcode (0, the exit code other than 127, -1 for exit code 127 and for
\* death by a signal), and a batch wait for one pid returns the error code
\* that gnupg_wait_process returns.
C19_SharedClassification ==
  (/\ BatchReturned /\ Len(ret.req) = 1 /\ ret.out # <<>>
   /\ ret.ec \notin {"GPG_ERR_ECHILD", "GPG_ERR_TIMEOUT"})
  => /\ ret.out[1] = Classify(wstat[ret.req[1]]).exitcode
     /\ ret.ec = Classify(wstat[ret.req[1]]).ec

\* C20: the status of every child that waitpid hands to a batch wait is kept:
\* it becomes the outcome of the listed pid it belongs to, or a new record at
\* the head of the cache, also when the call ends with that turn of the loop.
C20_NoStatusDiscarded ==
  [][\A p \in Pids :
       (batch.pc = "waitpid" /\ child[p] = "zombie" /\ child'[p] = "reaped") =>
         \/ terminated_children' = store_result(terminated_children, p, wstat[p])
         \/ \E i \in 1..Len(batch.pids) :
              /\ batch.pids[i] = p
              /\ batch.r_exitcodes[i] = -1
              /\ IF batch'.pc = "waitpid"
                 THEN batch'.r_exitcodes[i] = wstat[p]
                 ELSE ret'.out[i] = SlotValue(wstat[p])]_vars

\* waitpid hands the batch wait a listed pid whose entry holds a status.
Resolved_twice(p) ==
  /\ batch.pc = "waitpid"
  /\ child[p] = "zombie" /\ child'[p] = "reaped"
  /\ MatchIndex(batch.pids, p, 1) # 0
  /\ batch.r_exitcodes[MatchIndex(batch.pids, p, 1)] # -1

\* The entries of r_exitcodes that stand for a listed pid without a status.
Unresolved(pids, codes) == {i \in 1..Len(pids) : pids[i] # NoPid /\ codes[i] = -1}

\* What a batch wait does in a step that resolves a listed pid a second
\* time, with the error codes it may return then.
DoubleResolution(codes) ==
  \A p \in Pids :
    Resolved_twice(p) =>
      LET i == MatchIndex(batch.pids, p, 1) IN
      /\ batch'.pc = "idle"
      /\ ret'.op = "wait_processes"
      /\ ret'.out[i] = SlotValue(batch.r_exitcodes[i])
      /\ ret'.ec \in codes
      /\ (ret'.ec = "GPG_ERR_CONFIGURATION") <=>
           (\E k \in 1..Len(batch.pids) :
              batch.r_exitcodes[k] = W_EXITCODE(ExitNotFound))

\* An invalid pid is not counted in left and its entry stays -1.
InvalidPidsSkipped ==
  /\ batch.pc = "waitpid" =>
       batch.left = Cardinality(Unresolved(batch.pids, batch.r_exitcodes))
  /\ BatchReturned =>
       \A i \in 1..Len(ret.req) : ret.req[i] = NoPid => ret.out[i] = -1

SpawnReturnsHandle ==
  /\ ret' # ret
  /\ ret'.op = "process_spawn" /\ ret'.ec = "GPG_ERR_NO_ERROR"
  /\ ret'.arg \in Hids
  /\ "DETACHED" \notin proc'[ret'.arg].flags

PipeFlag(s) == IF s = "in" THEN "STDIN_PIPE" ELSE IF s = "out" THEN "STDOUT_PIPE" ELSE "STDERR_PIPE"
\* The ends of a pipe: 0 is read, 1 is write.
ParentEnd(s) == IF s = "in" THEN 1 ELSE 0
ChildEnd(s) == 1 - ParentEnd(s)
Holding(tab, file) == {fd \in DOMAIN tab : tab[fd] = file}
\* The streams the socket pair stands for, and those with a pipe of their own.
OnSocket(s, flags) == s # "err" /\ "STDINOUT_SOCKETPAIR" \in flags
OnPipe(s, flags) == PipeFlag(s) \in flags /\ ~OnSocket(s, flags)

\* C22: after a non-detached spawn returned a handle, the slot of a stream
\* with a pipe is the parent's end of that pipe (write end for stdin, read end
\* for stdout and stderr) and the parent holds no descriptor of the child's
\* end; the slot of a null or inherited stream is -1 and 0, 1, 2 are open as
\* before; the handle is not terminated and its pid is the child just forked.
C22_SpawnedHandle ==
  [][SpawnReturnsHandle =>
       LET h == ret'.arg
           pr == proc'[h]
       IN /\ \A s \in Streams :
               IF OnPipe(s, pr.flags)
               THEN /\ Holding(openfds', File(h, s, ParentEnd(s))) = {SlotOf(pr, s)}
                    /\ Holding(openfds', File(h, s, ChildEnd(s))) = {}
               ELSE ~OnSocket(s, pr.flags) => SlotOf(pr, s) = -1
          /\ \A fd \in {0, 1, 2} : fd \in DOMAIN openfds' /\ openfds'[fd] = openfds[fd]
          /\ ~pr.terminated
          /\ pr.pid \in Pids /\ child[pr.pid] = "unborn" /\ child'[pr.pid] = "running"
          /\ h \in held']_vars

\* A handle with pipes for stdin and stdout and stderr inherited.
C22_Witness ==
  /\ ret.op = "process_spawn" /\ ret.ec = "GPG_ERR_NO_ERROR" /\ ret.arg = 1
  /\ proc[1].flags = {"STDIN_PIPE", "STDOUT_PIPE"}
  /\ proc[1].fd_in \in DOMAIN openfds /\ openfds[proc[1].fd_in] = File(1, "in", 1)
  /\ proc[1].fd_out \in DOMAIN openfds /\ openfds[proc[1].fd_out] = File(1, "out", 0)
  /\ proc[1].fd_err = -1
  /\ child[proc[1].pid] = "running"

\* C23: after a spawn with GNUPG_PROCESS_STDINOUT_SOCKETPAIR returned a
\* handle, descriptors 0 and 1 of the child are one end of the socket pair,
\* fd_in and fd_out of the handle are the other end, and neither the parent
\* nor the child has a descriptor of both ends open.
C23_DuplexEnds ==
  [][(SpawnReturnsHandle /\ "STDINOUT_SOCKETPAIR" \in proc'[ret'.arg].flags) =>
       LET h == ret'.arg
           pr == proc'[h]
           pl == Plumb(openfds, h, pr.flags, "none")
       IN \A how \in Hows :
            LET c == SpawnChild(pl, how).tab IN
            \E e \in {0, 1} :
              /\ c[0] = File(h, "sock", e) /\ c[1] = File(h, "sock", e)
              /\ openfds'[pr.fd_in] = File(h, "sock", 1 - e)
              /\ openfds'[pr.fd_out] = File(h, "sock", 1 - e)
              /\ Holding(openfds', File(h, "sock", e)) = {}
              /\ Holding(c, File(h, "sock", 1 - e)) = {}]_vars

\* The child of the handle a spawn without slot waits for.
AwaitedChild == proc[batch.h].pid

\* C24: a spawn that is not detached and got no slot for the handle returns
\* only in a step in which its blocking wait reaps the terminated child; the
\* child was not reaped before and no child is reaped twice; the handle is
\* freed in that step and the caller never holds it.
C24_SpawnWithoutSlot ==
  [][/\ batch.pc = "spawn_wait" =>
          /\ AwaitedChild \in Pids /\ child[AwaitedChild] \in {"running", "zombie"}
          /\ ~proc[batch.h].terminated /\ proc[batch.h].mem = "live"
          /\ batch.h \notin held
          /\ ret' # ret =>
               /\ ret'.op = "process_spawn" /\ ret'.hang /\ ret'.arg = 0
               /\ batch'.pc = "idle"
               /\ child[AwaitedChild] = "zombie" /\ child'[AwaitedChild] = "reaped"
               /\ proc'[batch.h].terminated
               /\ proc'[batch.h].wstatus = wstat[AwaitedChild]
               /\ proc'[batch.h].mem = "freed"
     /\ \A p \in Pids : child[p] = "reaped" => child'[p] = "reaped"
     /\ (ret' # ret /\ ret'.op = "process_spawn" /\ ret'.hang) => batch.pc = "spawn_wait"]_vars

\* The spawn without slot has returned: its handle is freed and the child it
\* had is reaped.
C24_Witness ==
  /\ ret.op = "process_spawn" /\ ret.hang /\ ret.ec = "GPG_ERR_NO_ERROR"
  /\ \E h \in Hids :
       /\ proc[h].mem = "freed" /\ proc[h].terminated /\ h \notin held
       /\ proc[h].pid \in Pids /\ child[proc[h].pid] = "reaped"
       /\ proc[h].wstatus = wstat[proc[h].pid]

\* The operations of the process-handle interface, and the system calls in
\* them that can block.
HandleOps ==
  {"process_spawn", "process_terminate", "process_ctl", "process_wait",
   "process_wait_list", "process_release"}
Blocking == {"fork", "waitpid", "pipe", "socketpair", "kill"}
IsHook(call) == call \in {"pre_syscall", "post_syscall"}

\* Every blocking call has pre_syscall just before it and post_syscall just
\* after it.
Bracketed(calls) ==
  \A i \in 1..Len(calls) :
    calls[i] \in Blocking =>
      /\ i > 1 /\ calls[i - 1] = "pre_syscall"
      /\ i < Len(calls) /\ calls[i + 1] = "post_syscall"

\* The hook calls alternate, pre_syscall first and post_syscall last.
Alternating(calls) ==
  LET hooks == SelectSeq(calls, IsHook) IN
  /\ Len(hooks) % 2 = 0
  /\ \A k \in 1..Len(hooks) :
       hooks[k] = IF k % 2 = 1 THEN "pre_syscall" ELSE "post_syscall"

\* C25: every fork, waitpid, pipe, socketpair and kill that an operation on
\* process handles makes is between a call of pre_syscall and a call of
\* post_syscall, and the calls of the two hooks alternate and are closed
\* whenever an operation returns, with an error or without.
C25_SyscallsBracketed ==
  ret.op \in HandleOps => Bracketed(ret.calls) /\ Alternating(ret.calls)

\* The step is an operation on handles that calls kill (pid, sig).
SignalSent(pid) ==
  /\ ret' # ret
  /\ "kill" \in Range(ret'.calls)
  /\ IF ret'.op = "process_ctl" THEN pid = proc[ret'.arg].pid
     ELSE pid \in Range(ret'.out)

\* The handle whose pid the operation of the step signals.
SignalHandle == IF ret'.op = "process_spawn" THEN batch.h ELSE ret'.arg

\* The children as they are when the step calls kill: a spawn without slot
\* has waited before, the other operations have not.
ChildAtSignal(pid) == IF ret'.op = "process_spawn" THEN child'[pid] ELSE child[pid]
TerminatedAtSignal ==
  IF ret'.op = "process_spawn" THEN proc'[SignalHandle].terminated
  ELSE proc[SignalHandle].terminated

\* C26: kill is called only with the pid of a child that is not reaped: never
\* with the pid of a handle that is terminated, never with the -1 of a
\* detached handle; a release of a terminated or detached handle calls no
\* kill.
C26_SignalsOnlyLiveChildren ==
  [][\A pid \in Pids \cup {NoPid, 0} :
       SignalSent(pid) =>
         /\ pid \in Pids
         /\ ChildAtSignal(pid) \in {"running", "zombie"}
         /\ ~TerminatedAtSignal]_vars

\* The descriptors open in tab that the spawn of handle h created.
CreatedFor(tab, h) == {fd \in DOMAIN tab : tab[fd].h = h}

\* C27: when a handle is released, by gnupg_process_release or at the end of
\* a spawn without slot, the parent's ends that its spawn created and that
\* the caller did not take are closed, so that without a take the process has
\* the descriptors open that it had before the spawn; the ends taken are left
\* to the caller.
C27_ReleaseClosesOwnedEnds ==
  [][\A h \in Hids :
       (proc[h].mem = "live" /\ proc'[h].mem = "freed") =>
         /\ CreatedFor(openfds', h) \subseteq taken'
         /\ CreatedFor(openfds, h) \cap taken \subseteq DOMAIN openfds']_vars

\* A step in which a batch wait returns.
PollReturns ==
  /\ batch.pc = "waitpid" /\ batch'.pc = "idle"
  /\ ret'.op = "wait_processes"

\* C28: polling with the batch wait resolves the whole list: a poll that
\* returns when no listed child is running any more returns a status for
\* every listed pid, and a status that an earlier poll returned together with
\* GPG_ERR_TIMEOUT is returned by the next poll too.
C28_PollingResolvesAll ==
  [][PollReturns =>
       /\ (\A i \in 1..Len(ret'.req) : child[ret'.req[i]] # "running") =>
            \A i \in 1..Len(ret'.req) : ret'.out[i] # -1
       /\ (ret.op = "wait_processes" /\ ret.ec = "GPG_ERR_TIMEOUT") =>
            \A i \in 1..Len(ret'.req) : ret.out[i] # -1 => ret'.out[i] = ret.out[i]]_vars

\* The step forks the first child of a detached spawn: a child that has
\* exited already when the operation returns.
DetachedLaunch(pid) ==
  /\ child[pid] = "unborn" /\ child'[pid] \in {"zombie", "reaped"}
  /\ ret'.op \in {"process_spawn", "spawn_process_detached"}

\* C29: a detached spawn returns 0 only if its first child exited with code
\* 0, i.e. detached itself and forked the grandchild, and then the handle, if
\* there is one, is marked terminated; if the first child exited with code 1
\* the spawn returns an error.
C29_DetachedSuccess ==
  [][\A pid \in Pids :
       DetachedLaunch(pid) =>
         /\ ret'.ec = "GPG_ERR_NO_ERROR" =>
              /\ wstat'[pid] = W_EXITCODE(0)
              /\ ret'.op = "process_spawn" =>
                   \E h \in Hids : proc[h].mem = "unalloc" /\ proc'[h].terminated
         /\ wstat'[pid] = W_EXITCODE(1) => ret'.ec # "GPG_ERR_NO_ERROR"]_vars

====
